---- MODULE Spec2Model ----
(***************************************************************************)
(* A model of the VulkanOverlay program: the main loop of src/main.rs, the *)
(* message pump of src/input.rs, and the renderer of src/render.rs         *)
(* (Renderer::new, Renderer::render, update_selection, Renderer::cleanup), *)
(* running against a GPU queue and a presentation engine that behave as    *)
(* the Vulkan API allows.                                                  *)
(*                                                                         *)
(* The CPU side is one thread whose position is pc.  A render call is      *)
(* split at its Vulkan calls, because the GPU completes work between them. *)
(***************************************************************************)
EXTENDS Integers, Sequences, FiniteSets, TLC

(***************************************************************************)
(* Bounds of the exploration.                                              *)
(***************************************************************************)
\* render calls explored
MaxFrames == 3
\* largest number of swap-chain images the surface hands out
MaxImages == 3
\* messages found in the thread's queue by one call of process_input
MaxQueue == 1
\* half-width of the grid of cursor positions given to update_selection
\* on its own, in hundredths of a normalized unit
HitGrid == 10
\* physical devices enumerate_physical_devices reports
MaxDevices == 2
\* queue families of one physical device
MaxFamilies == 2
\* largest min_image_count the surface reports
MaxMinImages == 2
\* surface formats the surface reports
MaxFormats == 2
\* bytes of a shader file
MaxBytes == 8

(***************************************************************************)
(* Program constants.                                                      *)
(***************************************************************************)
MAX_FRAMES_IN_FLIGHT == 2
WM_HOTKEY_ID == 1
SEGMENTS == 6
WINDOW_WIDTH == 800
WINDOW_HEIGHT == 600
\* radius, inner_radius, segments and segment_gap of the uniform record,
\* lengths in hundredths
RADIUS == 25
UBO_INNER_RADIUS == 8
UBO_SEGMENTS == 6
SEGMENT_GAP == 10
\* align(16) of UniformBufferObject
UBO_ALIGN == 16

Slots == 0..(MAX_FRAMES_IN_FLIGHT - 1)
ImageCounts == 2..MaxImages
Messages == {"WM_QUIT", "WM_HOTKEY", "WM_OTHER"}

\* Option<i32>: None is the empty sequence, Some(k) the sequence <<k>>.
None == <<>>
Some(k) == <<k>>
UnwrapOr(o, d) == IF o = None THEN d ELSE o[1]

VARIABLES
    pc,                  \* position of the main thread
    newStep,             \* index of the next step of Renderer::new
    createLog,           \* GPU objects in order of creation
    destroyLog,          \* GPU objects in order of destruction
    idleWaited,          \* device_wait_idle has returned
    cleanupRuns,         \* number of calls of Renderer::cleanup
    swapchain_image_count,
    descriptor_sets,     \* descriptor set i -> uniform buffer it is bound to
    command_buffers,     \* command buffer i -> what was recorded into it
    recordings,          \* number of times command buffers were recorded
    boot,                \* a selection of Renderer::new made on its own:
                         \* the call, what it was given and what it chose
    visible, selected_segment,      \* OverlayContent
    prev_visibility, alt_pressed_prev,
    printed,             \* selection messages printed in this iteration
    current_frame,
    in_flight_fences,    \* slot -> signaled
    image_available,     \* slot -> signaled
    render_finished,     \* slot -> signaled
    gpuPending,          \* submissions queued and not yet completed
    presentQ,            \* slot -> present requests waiting on its
                         \* render_finished semaphore, not yet processed
    acquired,            \* images the application holds
    image_index,         \* render's local: the acquired image
    uniform_buffers,     \* image -> contents of its uniform buffer
    clock,               \* frames whose uniform record was built; the
                         \* record's time is the clock at that moment
    framesOk,            \* render calls that returned Ok
    steps,               \* Vulkan calls of the render call of this iteration
    renderResult         \* result of the last render call

vars == <<pc, newStep, createLog, destroyLog, idleWaited, cleanupRuns,
          swapchain_image_count, descriptor_sets, command_buffers, recordings,
          boot, visible, selected_segment,
          prev_visibility, alt_pressed_prev, printed, current_frame,
          in_flight_fences,
          image_available, render_finished, gpuPending, presentQ, acquired,
          image_index, uniform_buffers, clock, framesOk, steps,
          renderResult>>

rendererVars == <<current_frame, in_flight_fences, image_available,
                  render_finished, gpuPending, presentQ, acquired, image_index,
                  uniform_buffers, clock, framesOk, steps, renderResult>>
newVars == <<newStep, createLog, swapchain_image_count, descriptor_sets,
             command_buffers, recordings, boot>>
overlayVars == <<visible, selected_segment, prev_visibility, alt_pressed_prev,
                 printed>>
cleanupVars == <<destroyLog, idleWaited, cleanupRuns>>

(***************************************************************************)
(* Renderer::new: the creation steps in the order of the code.             *)
(***************************************************************************)
\* the descriptor-set layout is created before the framebuffers
NewSteps_LayoutBeforeFramebuffers == <<
    "load_entry", "create_instance", "create_win32_surface",
    "pick_physical_device", "find_queue_family_index",
    "create_logical_device_and_queue", "create_swapchain",
    "get_swapchain_images", "create_image_views", "create_render_pass",
    "create_descriptor_set_layout", "create_framebuffers",
    "create_uniform_buffers", "create_descriptor_pool",
    "create_descriptor_sets", "create_graphics_pipeline",
    "create_command_pool", "allocate_command_buffers",
    "record_command_buffers", "create_sync_objects" >>

NewSteps == <<
    "load_entry", "create_instance", "create_win32_surface",
    "pick_physical_device", "find_queue_family_index",
    "create_logical_device_and_queue", "create_swapchain",
    "get_swapchain_images", "create_image_views", "create_render_pass",
    "create_framebuffers", "create_descriptor_set_layout",
    "create_uniform_buffers", "create_descriptor_pool",
    "create_descriptor_sets", "create_graphics_pipeline",
    "create_command_pool", "allocate_command_buffers",
    "record_command_buffers", "create_sync_objects" >>

\* n objects of one kind, in index order
Objects(kind, n) == [k \in 1..n |-> <<kind, k - 1>>]

\* uniform buffers created per slot instead of per image
UniformBufferObjects_PerSlot(n) ==
    [k \in 1..(2 * MAX_FRAMES_IN_FLIGHT) |->
        IF k % 2 = 1 THEN <<"uniform_buffer", (k - 1) \div 2>>
                     ELSE <<"uniform_buffer_memory", (k - 2) \div 2>>]

\* create_uniform_buffers: buffer i then its memory, for each image
UniformBufferObjects(n) ==
    [k \in 1..(2 * n) |->
        IF k % 2 = 1 THEN <<"uniform_buffer", (k - 1) \div 2>>
                     ELSE <<"uniform_buffer_memory", (k - 2) \div 2>>]

\* create_sync_objects: per slot an image_available semaphore, a
\* render_finished semaphore and a fence
SyncObjects(m) ==
    [k \in 1..(3 * m) |->
        CASE k % 3 = 1 -> <<"image_available_semaphore", (k - 1) \div 3>>
          [] k % 3 = 2 -> <<"render_finished_semaphore", (k - 2) \div 3>>
          [] OTHER     -> <<"fence", (k - 3) \div 3>>]

\* the objects a step of Renderer::new creates, in order; n is the image count
CreatedBy(step, n) ==
    CASE step = "create_instance" -> Objects("instance", 1)
      [] step = "create_win32_surface" -> Objects("surface", 1)
      [] step = "create_logical_device_and_queue" -> Objects("device", 1)
      [] step = "create_swapchain" -> Objects("swapchain", 1)
      [] step = "create_image_views" -> Objects("image_view", n)
      [] step = "create_render_pass" -> Objects("render_pass", 1)
      [] step = "create_framebuffers" -> Objects("framebuffer", n)
      [] step = "create_descriptor_set_layout" ->
            Objects("descriptor_set_layout", 1)
      [] step = "create_uniform_buffers" -> UniformBufferObjects(n)
      [] step = "create_descriptor_pool" -> Objects("descriptor_pool", 1)
      [] step = "create_descriptor_sets" -> Objects("descriptor_set", n)
      [] step = "create_graphics_pipeline" ->
            Objects("pipeline_layout", 1) \o Objects("pipeline", 1)
      [] step = "create_command_pool" -> Objects("command_pool", 1)
      [] step = "allocate_command_buffers" -> Objects("command_buffer", n)
      [] step = "create_sync_objects" -> SyncObjects(MAX_FRAMES_IN_FLIGHT)
      [] OTHER -> <<>>

\* create_descriptor_sets: descriptor set i is bound to uniform buffer i
BoundBuffer(i) == i
\* record_command_buffers: command buffer i draws into framebuffer i and
\* binds descriptor set i
RecordedFramebuffer(i) == i
RecordedDescriptorSet(i) == i

\* command buffers recorded again when the sync objects are created
RecordingSteps_Twice == {"record_command_buffers", "create_sync_objects"}

\* the steps of Renderer::new that begin, fill and end the command buffers
RecordingSteps == {"record_command_buffers"}

\* fences created without the SIGNALED flag
FenceCreatedSignaled_Unsignaled == FALSE

\* create_sync_objects: fence_info carries FenceCreateFlags::SIGNALED
FenceCreatedSignaled == TRUE

\* no selection has been made on its own
NoCall == [call |-> "none", input |-> <<>>, output |-> <<>>]

\* the memory of a uniform buffer before its first write
Unwritten == [time |-> -1, mouse_pos |-> <<0, 0>>, item_selected |-> -1]

Init ==
    /\ pc = "new"
    /\ newStep = 1
    /\ createLog = <<>>
    /\ destroyLog = <<>>
    /\ idleWaited = FALSE
    /\ cleanupRuns = 0
    /\ swapchain_image_count = 0
    /\ descriptor_sets = <<>>
    /\ command_buffers = <<>>
    /\ recordings = 0
    /\ boot = NoCall
    /\ visible = FALSE
    /\ selected_segment = None
    /\ prev_visibility = FALSE
    /\ alt_pressed_prev = FALSE
    /\ printed = <<>>
    /\ current_frame = 0
    /\ in_flight_fences = [s \in Slots |-> FALSE]
    /\ image_available = [s \in Slots |-> FALSE]
    /\ render_finished = [s \in Slots |-> FALSE]
    /\ gpuPending = {}
    /\ presentQ = [s \in Slots |-> 0]
    /\ acquired = {}
    /\ image_index = 0
    /\ uniform_buffers = <<>>
    /\ clock = 0
    /\ framesOk = 0
    /\ steps = <<>>
    /\ renderResult = "none"

\* One step of Renderer::new succeeds.  The last one returns the Renderer
\* (current_frame: 0) and main goes on to OverlayContent::new and the loop.
NewStepOk ==
    /\ pc = "new"
    /\ newStep <= Len(NewSteps)
    /\ LET step == NewSteps[newStep] IN
       /\ swapchain_image_count' \in
             IF step = "get_swapchain_images" THEN ImageCounts
             ELSE {swapchain_image_count}
       /\ createLog' = createLog \o CreatedBy(step, swapchain_image_count)
       /\ descriptor_sets' =
             IF step = "create_descriptor_sets"
             THEN [i \in 0..(swapchain_image_count - 1) |-> BoundBuffer(i)]
             ELSE descriptor_sets
       /\ uniform_buffers' =
             IF step = "create_uniform_buffers"
             THEN [i \in 0..(swapchain_image_count - 1) |-> Unwritten]
             ELSE uniform_buffers
       /\ command_buffers' =
             IF step \in RecordingSteps
             THEN [i \in 0..(swapchain_image_count - 1) |->
                      [framebuffer |-> RecordedFramebuffer(i),
                       descriptor_set |-> RecordedDescriptorSet(i)]]
             ELSE command_buffers
       /\ recordings' =
             IF step \in RecordingSteps THEN recordings + 1
             ELSE recordings
       /\ in_flight_fences' =
             IF step = "create_sync_objects"
             THEN [s \in Slots |-> FenceCreatedSignaled]
             ELSE in_flight_fences
    /\ newStep' = newStep + 1
    /\ pc' = IF newStep = Len(NewSteps) THEN "input" ELSE "new"
    /\ UNCHANGED <<boot, overlayVars, cleanupVars, current_frame,
                   image_available, render_finished, gpuPending, presentQ,
                   acquired, image_index, clock, framesOk, steps, renderResult>>

\* the errors a step of Renderer::new returns (without the Vulkan result
\* code the message ends with)
NewErrors(step) ==
    CASE step = "load_entry" -> {"Failed to load Vulkan entry"}
      [] step = "create_instance" -> {"Failed to create Vulkan instance"}
      [] step = "create_win32_surface" -> {"Failed to create Win32 surface"}
      [] step = "pick_physical_device" ->
            {"Failed to enumerate physical devices",
             "Failed to get device surface support",
             "Failed to find a suitable GPU!"}
      [] step = "find_queue_family_index" ->
            {"Failed to get device surface support",
             "Failed to find a suitable queue family."}
      [] step = "create_logical_device_and_queue" ->
            {"Failed to create logical device"}
      [] step = "create_swapchain" ->
            {"Failed to get surface capabilities",
             "Failed to get surface formats", "Failed to get present modes",
             "Failed to create swapchain"}
      [] step = "get_swapchain_images" -> {"Failed to get swapchain images"}
      [] step = "create_image_views" -> {"Failed to create image view"}
      [] step = "create_render_pass" -> {"Failed to create render pass"}
      [] step = "create_framebuffers" -> {"Failed to create framebuffer"}
      [] step = "create_descriptor_set_layout" ->
            {"Failed to create descriptor set layout"}
      [] step = "create_uniform_buffers" ->
            {"Failed to create buffer", "Failed to allocate buffer memory",
             "Failed to bind buffer memory",
             "Failed to find suitable memory type."}
      [] step = "create_descriptor_pool" ->
            {"Failed to create descriptor pool"}
      [] step = "create_descriptor_sets" ->
            {"Failed to allocate descriptor sets"}
      [] step = "create_graphics_pipeline" ->
            {"Failed to open shader file", "Failed to read shader file",
             "Shader bytecode is not properly aligned.",
             "Failed to create vertex shader module",
             "Failed to create fragment shader module",
             "Failed to create pipeline layout",
             "Failed to create graphics pipeline"}
      [] step = "create_command_pool" -> {"Failed to create command pool"}
      [] step = "allocate_command_buffers" ->
            {"Failed to allocate command buffers"}
      [] step = "record_command_buffers" ->
            {"Failed to begin command buffer", "Failed to end command buffer"}
      [] OTHER ->
            {"Failed to create image_available semaphore",
             "Failed to create render_finished semaphore",
             "Failed to create fence"}

\* a failed step is logged and Renderer::new goes on with the next one
NewStepErr_Continues ==
    /\ pc = "new"
    /\ newStep < Len(NewSteps)
    /\ renderResult' \in NewErrors(NewSteps[newStep])
    /\ newStep' = newStep + 1
    /\ UNCHANGED <<pc, createLog, swapchain_image_count, descriptor_sets,
                   command_buffers, recordings, boot, overlayVars,
                   cleanupVars, current_frame,
                   in_flight_fences, image_available, render_finished,
                   gpuPending, presentQ, acquired, image_index,
                   uniform_buffers, clock, framesOk, steps>>

\* A step of Renderer::new fails: `?` returns its error from new and main's
\* expect("Failed to initialize Vulkan renderer") panics.
NewStepErr ==
    /\ pc = "new"
    /\ newStep <= Len(NewSteps)
    /\ pc' = "panicked"
    /\ renderResult' \in NewErrors(NewSteps[newStep])
    /\ UNCHANGED <<newVars, overlayVars, cleanupVars, current_frame,
                   in_flight_fences, image_available, render_finished,
                   gpuPending, presentQ, acquired, image_index,
                   uniform_buffers, clock, framesOk, steps>>

(***************************************************************************)
(* The environment.  The messages process_input finds in the thread's      *)
(* queue, the state of the Alt key GetAsyncKeyState reports and the cursor *)
(* position are inputs, drawn where the code reads them.                   *)
(***************************************************************************)
Running == pc \notin {"done", "panicked"}

\* the queues one call of process_input may find
MessageQueues == UNION {[1..n -> Messages] : n \in 0..MaxQueue}

(***************************************************************************)
(* process_input: drains the queue; WM_QUIT returns false at once, the     *)
(* hotkey message shows the overlay, anything else is dispatched.          *)
(***************************************************************************)
\* the wParam of a message: the registered hotkey's id for WM_HOTKEY
WParam(m) == IF m = "WM_HOTKEY" THEN WM_HOTKEY_ID ELSE 0

RECURSIVE process_input(_, _)
process_input(queue, vis) ==
    IF queue = <<>>
    THEN [continue |-> TRUE, visible |-> vis]
    ELSE LET m == Head(queue) IN
         IF m = "WM_QUIT"
         THEN [continue |-> FALSE, visible |-> vis]
         ELSE IF m = "WM_HOTKEY" /\ WParam(m) = WM_HOTKEY_ID
              THEN process_input(Tail(queue), TRUE)
              ELSE process_input(Tail(queue), vis)

(***************************************************************************)
(* main: the head of a loop iteration.  When process_input returns false   *)
(* the loop breaks and main calls unregister_hotkey and renderer.cleanup.  *)
(***************************************************************************)
MainInput ==
    /\ pc = "input"
    /\ \E queue \in MessageQueues :
       LET r == process_input(queue, visible) IN
       /\ visible' = r.visible
       /\ pc' = IF r.continue THEN "body" ELSE "cleanup"
       /\ cleanupRuns' = IF r.continue THEN cleanupRuns ELSE cleanupRuns + 1
    /\ UNCHANGED <<newVars, selected_segment, steps, printed,
                   prev_visibility, alt_pressed_prev, destroyLog, idleWaited,
                   current_frame, in_flight_fences, image_available,
                   render_finished, gpuPending, presentQ, acquired,
                   image_index, uniform_buffers, clock, framesOk, renderResult>>

\* visible after the Alt check of main: hidden when Alt was released
AfterAltCheck(alt_pressed) ==
    IF alt_pressed # alt_pressed_prev /\ ~alt_pressed /\ visible
    THEN FALSE
    ELSE visible

\* a main that renders in every iteration, whatever the visibility
RenderIfVisible_Always(vis) == TRUE

\* a line printed about the selection
Message(text, segment) == [text |-> text, segment |-> segment]

\* a main that keeps the selection when the overlay is hidden
SelectionAfterVisibilityCheck_Keeps(vis, prev, sel) == sel

\* selected_segment after main's handling of a change of visibility: reset
\* when the overlay became hidden
SelectionAfterVisibilityCheck(vis, prev, sel) ==
    IF vis # prev /\ ~vis THEN None ELSE sel

\* the action executed twice
ActionPrinted_Twice(vis, prev, sel) ==
    IF vis # prev /\ ~vis /\ sel # None
    THEN <<Message("Executing action for segment", sel[1]),
           Message("Executing action for segment", sel[1])>>
    ELSE <<>>

\* what that handling prints: the action of the segment selected when the
\* overlay became hidden
ActionPrinted(vis, prev, sel) ==
    IF vis # prev /\ ~vis /\ sel # None
    THEN <<Message("Executing action for segment", sel[1])>>
    ELSE <<>>

\* main's test before the render call
RenderIfVisible(vis) == vis

\* The rest of a loop iteration up to the render call: the Alt check, the
\* handling of a change of visibility, and the test `if visible`.
MainBody ==
    /\ pc = "body"
    /\ \E alt_pressed \in BOOLEAN :
       LET vis == AfterAltCheck(alt_pressed) IN
       /\ visible' = vis
       /\ alt_pressed_prev' = alt_pressed
       /\ prev_visibility' = vis
       /\ selected_segment' =
             SelectionAfterVisibilityCheck(vis, prev_visibility,
                                           selected_segment)
       /\ printed' = ActionPrinted(vis, prev_visibility, selected_segment)
       /\ IF RenderIfVisible(vis)
          THEN /\ clock < MaxFrames
               /\ pc' = "r_wait"
          ELSE pc' = "sleep"
    /\ UNCHANGED <<newVars, cleanupVars, rendererVars>>

(***************************************************************************)
(* update_selection: the hit test.  Normalized coordinates are kept in     *)
(* hundredths, so inner_radius 0.08 is 8.  The comparisons are exact; the  *)
(* one place where the rounding of f32 changes the result on these inputs, *)
(* the sum angle + 2*pi, is modelled by AngleRoundsToTwoPi.                *)
(***************************************************************************)
INNER_RADIUS == 8

\* window-relative cursor positions sampled by render (mouse_x, mouse_y)
CursorSamples == {<<400, 300>>, <<400, 150>>}

\* normalized_mouse_x = (mouse_x / width) * 2 - 1, in hundredths
NormalizedX(mouse_x) == (200 * mouse_x) \div WINDOW_WIDTH - 100
\* a normalization that leaves the y axis pointing down
NormalizedY_NotInverted(mouse_y) == (200 * mouse_y) \div WINDOW_HEIGHT - 100

\* normalized_mouse_y = 1 - (mouse_y / height) * 2, in hundredths
NormalizedY(mouse_y) == 100 - (200 * mouse_y) \div WINDOW_HEIGHT

\* floor(angle / (2*pi/6)) for an angle in [0, pi), from the direction (x, y)
\* with y >= 0: the sector borders are at tan = sqrt(3), so y*y against 3*x*x
UpperSegment(x, y) ==
    IF x > 0 THEN (IF y * y < 3 * x * x THEN 0 ELSE 1)
    ELSE IF x = 0 THEN (IF y = 0 THEN 0 ELSE 1)
    ELSE (IF y * y > 3 * x * x THEN 1 ELSE 2)

\* 2^22: the f32 nearest to 2*pi has an ulp of 2^-21, so a negative angle
\* smaller in size than 2^-22 is lost when 2*pi is added to it
ROUNDING_RATIO == 4194304

\* angle = atan2(coord_y, coord_x) is negative and angle + 2*pi rounds to
\* 2*pi: -coord_y / coord_x < 2^-22 (the angle is its tangent at this size)
AngleRoundsToTwoPi(coord_x, coord_y) ==
    /\ coord_y < 0
    /\ coord_x > 0
    /\ -coord_y <= (coord_x - 1) \div ROUNDING_RATIO

\* a hit test that sends a boundary angle to the segment below it
SegmentIndex_BoundaryBelow(coord_x, coord_y) ==
    IF coord_y = 0 /\ coord_x < 0 THEN (SEGMENTS \div 2) - 1
    ELSE IF coord_y > 0 \/ (coord_y = 0 /\ coord_x >= 0)
    THEN UpperSegment(coord_x, coord_y)
    ELSE (SEGMENTS \div 2) + UpperSegment(-coord_x, -coord_y)

\* floor(angle / segment_angle) with angle = atan2(coord_y, coord_x),
\* shifted by 2*pi when negative.  2*pi / segment_angle is exactly 6 in
\* f32, so an angle rounded to 2*pi gives the index 6.
SegmentIndex(coord_x, coord_y) ==
    IF AngleRoundsToTwoPi(coord_x, coord_y) THEN SEGMENTS
    ELSE IF coord_y > 0 \/ (coord_y = 0 /\ coord_x >= 0)
    THEN UpperSegment(coord_x, coord_y)
    ELSE (SEGMENTS \div 2) + UpperSegment(-coord_x, -coord_y)

Abs(v) == IF v < 0 THEN -v ELSE v

\* dist >= r for dist = sqrt(coord_x^2 + coord_y^2); a coordinate of size r
\* or more decides it without the squares
DistAtLeast(coord_x, coord_y, r) ==
    \/ Abs(coord_x) >= r
    \/ Abs(coord_y) >= r
    \/ coord_x * coord_x + coord_y * coord_y >= r * r

\* a hit test that selects nothing at a distance of exactly inner_radius
update_selection_Strict(normalized_mouse_x, normalized_mouse_y, previous) ==
    LET coord_x == normalized_mouse_x
        coord_y == -normalized_mouse_y
    IN IF \/ Abs(coord_x) > INNER_RADIUS
          \/ Abs(coord_y) > INNER_RADIUS
          \/ coord_x * coord_x + coord_y * coord_y
                > INNER_RADIUS * INNER_RADIUS
       THEN Some(SegmentIndex(coord_x, coord_y))
       ELSE None

\* a hit test with an outer radius of 0.25, the drawn radius
update_selection_OuterCutoff(normalized_mouse_x, normalized_mouse_y, previous) ==
    LET coord_x == normalized_mouse_x
        coord_y == -normalized_mouse_y
    IN IF DistAtLeast(coord_x, coord_y, INNER_RADIUS)
          /\ ~DistAtLeast(coord_x, coord_y, 26)
       THEN Some(SegmentIndex(coord_x, coord_y))
       ELSE None

\* the value update_selection leaves in OverlayContent.selected_segment
update_selection(normalized_mouse_x, normalized_mouse_y, previous) ==
    LET coord_x == normalized_mouse_x
        coord_y == -normalized_mouse_y
    IN IF DistAtLeast(coord_x, coord_y, INNER_RADIUS)
       THEN Some(SegmentIndex(coord_x, coord_y))
       ELSE None

(***************************************************************************)
(* Renderer::render, one action per Vulkan call.                           *)
(***************************************************************************)
RenderPcs == {"r_wait", "r_reset", "r_acquire", "r_update", "r_submit",
              "r_present"}

Call(name, args) == [call |-> name, args |-> args]

\* a wait that returns without the fence being signaled
RenderWait_NoBlock ==
    /\ pc = "r_wait"
    /\ steps' = Append(steps, Call("wait_for_fences", <<current_frame>>))
    /\ pc' = "r_reset"
    /\ UNCHANGED <<newVars, overlayVars, cleanupVars, current_frame,
                   in_flight_fences, image_available, render_finished,
                   gpuPending, presentQ, acquired, image_index,
                   uniform_buffers, clock, framesOk, renderResult>>

\* wait_for_fences on the fence of the current slot: blocks until signaled
RenderWait ==
    /\ pc = "r_wait"
    /\ in_flight_fences[current_frame]
    /\ steps' = Append(steps, Call("wait_for_fences", <<current_frame>>))
    /\ pc' = "r_reset"
    /\ UNCHANGED <<newVars, overlayVars, cleanupVars, current_frame,
                   in_flight_fences, image_available, render_finished,
                   gpuPending, presentQ, acquired, image_index,
                   uniform_buffers, clock, framesOk, renderResult>>

\* a render that leaves the fence signaled
RenderReset_Skip ==
    /\ pc = "r_reset"
    /\ steps' = Append(steps, Call("reset_fences", <<current_frame>>))
    /\ pc' = "r_acquire"
    /\ UNCHANGED <<newVars, overlayVars, cleanupVars, current_frame,
                   in_flight_fences, image_available, render_finished,
                   gpuPending, presentQ, acquired, image_index,
                   uniform_buffers, clock, framesOk, renderResult>>

\* reset_fences on the fence of the current slot
RenderReset ==
    /\ pc = "r_reset"
    /\ in_flight_fences' = [in_flight_fences EXCEPT ![current_frame] = FALSE]
    /\ steps' = Append(steps, Call("reset_fences", <<current_frame>>))
    /\ pc' = "r_acquire"
    /\ UNCHANGED <<newVars, overlayVars, cleanupVars, current_frame,
                   image_available, render_finished, gpuPending, presentQ,
                   acquired, image_index, uniform_buffers, clock, framesOk,
                   renderResult>>

\* acquire_next_image: the presentation engine hands out any image the
\* application does not hold, and signals image_available of the slot
RenderAcquire ==
    /\ pc = "r_acquire"
    /\ \E i \in (0..(swapchain_image_count - 1)) \ acquired :
        /\ image_index' = i
        /\ acquired' = acquired \cup {i}
        /\ steps' = Append(steps,
                       Call("acquire_next_image", <<i, current_frame>>))
    /\ image_available' = [image_available EXCEPT ![current_frame] = TRUE]
    /\ pc' = "r_update"
    /\ UNCHANGED <<newVars, overlayVars, cleanupVars, current_frame,
                   in_flight_fences, render_finished, gpuPending, presentQ,
                   uniform_buffers, clock, framesOk, renderResult>>

\* an update_selection that prints on every call
Notifications_Always(previous, computed) ==
    IF computed # None
    THEN <<Message("Selected Segment", computed[1])>>
    ELSE <<Message("No Segment Selected", -1)>>

\* the lines update_selection prints: one when the selection changes
Notifications(previous, computed) ==
    IF computed # None
    THEN IF previous # computed
         THEN <<Message("Selected Segment", computed[1])>>
         ELSE <<>>
    ELSE IF previous # None
         THEN <<Message("No Segment Selected", -1)>>
         ELSE <<>>

\* an update_selection that also hides the overlay
SelectionWritten_Hides(content, computed) ==
    [visible |-> FALSE, selected_segment |-> computed]

\* the OverlayContent update_selection leaves behind: it assigns
\* selected_segment and nothing else
SelectionWritten(content, computed) ==
    [content EXCEPT !.selected_segment = computed]

\* a uniform record built from the selection of the frame before
ItemSelected_Stale(previous, computed) == UnwrapOr(previous, -1)

\* item_selected of the uniform record: built after update_selection ran
ItemSelected(previous, computed) == UnwrapOr(computed, -1)

\* a record with the two radii in each other's place
UniformRecord_RadiiSwapped(time, mouse_pos, item_selected) ==
    [radius |-> UBO_INNER_RADIUS, inner_radius |-> RADIUS,
     segments |-> UBO_SEGMENTS, time |-> time, mouse_pos |-> mouse_pos,
     segment_gap |-> SEGMENT_GAP, item_selected |-> item_selected]

\* the record render builds, lengths in hundredths
UniformRecord(time, mouse_pos, item_selected) ==
    [radius |-> RADIUS, inner_radius |-> UBO_INNER_RADIUS,
     segments |-> UBO_SEGMENTS, time |-> time, mouse_pos |-> mouse_pos,
     segment_gap |-> SEGMENT_GAP, item_selected |-> item_selected]

\* the uniform buffer of the frame slot is written
UpdatedBuffer_BySlot(image, slot) == slot

\* the index of the uniform buffer render writes: update_uniform_buffer is
\* called with image_index
UpdatedBuffer(image, slot) == image

\* the cursor is sampled, update_selection runs, the uniform record is
\* built and copied into the uniform buffer of the acquired image
RenderUpdate ==
    /\ pc = "r_update"
    /\ \E cursor \in CursorSamples :
        LET nx == NormalizedX(cursor[1])
            ny == NormalizedY(cursor[2])
            sel == update_selection(nx, ny, selected_segment)
            content == SelectionWritten(
                          [visible |-> visible,
                           selected_segment |-> selected_segment], sel)
            ubo == UniformRecord(clock + 1, <<nx, ny>>,
                                 ItemSelected(selected_segment, sel))
            target == UpdatedBuffer(image_index, current_frame)
        IN /\ selected_segment' = content.selected_segment
           /\ visible' = content.visible
           /\ printed' = Notifications(selected_segment, sel)
           /\ uniform_buffers' = [uniform_buffers EXCEPT ![target] = ubo]
           /\ steps' = steps \o
                 << Call("update_selection", <<nx, ny>>),
                    Call("update_uniform_buffer", <<target>>) >>
    /\ clock' = clock + 1
    /\ pc' = "r_submit"
    /\ UNCHANGED <<newVars, prev_visibility,
                   alt_pressed_prev, cleanupVars, current_frame,
                   in_flight_fences, image_available, render_finished,
                   gpuPending, presentQ, acquired, image_index, framesOk,
                   renderResult>>

\* a submission that picks the command buffer by slot instead of by image
SubmitInfo_SlotCommand(image, slot) ==
    [cmd |-> slot, wait |-> slot, stage |-> "COLOR_ATTACHMENT_OUTPUT",
     signal |-> slot, fence |-> slot]

\* the submission render hands to queue_submit
SubmitInfo(image, slot) ==
    [cmd |-> image, wait |-> slot, stage |-> "COLOR_ATTACHMENT_OUTPUT",
     signal |-> slot, fence |-> slot]

RenderSubmit ==
    /\ pc = "r_submit"
    /\ LET info == SubmitInfo(image_index, current_frame) IN
       /\ gpuPending' = gpuPending \cup
             {[cmd |-> info.cmd, wait |-> info.wait, signal |-> info.signal,
               fence |-> info.fence, time |-> clock]}
       /\ steps' = Append(steps,
             Call("queue_submit",
                  <<info.cmd, info.wait, info.stage, info.signal, info.fence>>))
    /\ pc' = "r_present"
    /\ UNCHANGED <<newVars, overlayVars, cleanupVars, current_frame,
                   in_flight_fences, image_available, render_finished,
                   presentQ, acquired, image_index, uniform_buffers, clock, framesOk,
                   renderResult>>

\* a render that never leaves its slot
NextFrame_Stay(slot) == slot

\* the slot after a successful frame
NextFrame(slot) == (slot + 1) % MAX_FRAMES_IN_FLIGHT

\* queue_present, then current_frame advances and render returns Ok
RenderPresent ==
    /\ pc = "r_present"
    /\ presentQ' = [presentQ EXCEPT ![current_frame] = @ + 1]
    /\ acquired' = acquired \ {image_index}
    /\ steps' = steps \o
          << Call("queue_present", <<image_index, current_frame>>),
             Call("advance", <<NextFrame(current_frame)>>) >>
    /\ current_frame' = NextFrame(current_frame)
    /\ renderResult' = "Ok"
    /\ framesOk' = framesOk + 1
    /\ pc' = "sleep"
    /\ UNCHANGED <<newVars, overlayVars, cleanupVars,
                   in_flight_fences, image_available, render_finished,
                   gpuPending, image_index, uniform_buffers, clock>>

\* the end of a loop iteration: render's locals are gone, main sleeps 16 ms
MainSleep ==
    /\ pc = "sleep"
    /\ pc' = "input"
    /\ steps' = <<>>
    /\ image_index' = 0
    /\ printed' = <<>>
    /\ UNCHANGED <<newVars, visible, selected_segment, prev_visibility,
                   alt_pressed_prev, cleanupVars, current_frame,
                   in_flight_fences, image_available, render_finished,
                   gpuPending, presentQ, acquired, uniform_buffers, clock, framesOk,
                   renderResult>>

\* the error render returns when the call at position p fails
ErrorAt(p) ==
    CASE p = "r_wait" -> "Failed to wait for fence"
      [] p = "r_reset" -> "Failed to reset fence"
      [] p = "r_acquire" -> "Failed to acquire next image"
      [] p = "r_update" -> "Failed to map uniform buffer memory"
      [] p = "r_submit" -> "Failed to submit queue"
      [] OTHER -> "Failed to present queue"

\* a failed call is reported and the loop goes on to its next iteration
RenderErr_Continues ==
    /\ pc \in RenderPcs \ {"r_update"}
    /\ renderResult' = ErrorAt(pc)
    /\ pc' = "sleep"
    /\ UNCHANGED <<newVars, overlayVars, cleanupVars, current_frame,
                   in_flight_fences, image_available, render_finished,
                   gpuPending, presentQ, acquired, image_index,
                   uniform_buffers, clock, framesOk, steps>>

\* A Vulkan call of render fails (the fence wait or reset, the acquire, the
\* submit or the present): render returns the error through `?` and main's
\* expect("Rendering failed") panics.
RenderErr ==
    /\ pc \in RenderPcs \ {"r_update"}
    /\ renderResult' = ErrorAt(pc)
    /\ pc' = "panicked"
    /\ UNCHANGED <<newVars, overlayVars, cleanupVars, current_frame,
                   in_flight_fences, image_available, render_finished,
                   gpuPending, presentQ, acquired, image_index,
                   uniform_buffers, clock, framesOk, steps>>

\* map_memory of update_uniform_buffer fails: the cursor was sampled,
\* update_selection ran and the uniform record was built, nothing is
\* copied, and render returns the error
RenderUpdateErr ==
    /\ pc = "r_update"
    /\ \E cursor \in CursorSamples :
        LET nx == NormalizedX(cursor[1])
            ny == NormalizedY(cursor[2])
            sel == update_selection(nx, ny, selected_segment)
            content == SelectionWritten(
                          [visible |-> visible,
                           selected_segment |-> selected_segment], sel)
        IN /\ selected_segment' = content.selected_segment
           /\ visible' = content.visible
           /\ printed' = Notifications(selected_segment, sel)
           /\ steps' = Append(steps, Call("update_selection", <<nx, ny>>))
    /\ clock' = clock + 1
    /\ renderResult' = ErrorAt(pc)
    /\ pc' = "panicked"
    /\ UNCHANGED <<newVars, prev_visibility,
                   alt_pressed_prev, cleanupVars, current_frame,
                   in_flight_fences, image_available, render_finished,
                   gpuPending, presentQ, acquired, image_index, framesOk,
                   uniform_buffers>>

(***************************************************************************)
(* The GPU queue and the presentation engine.                              *)
(***************************************************************************)
\* A submission executes once its wait semaphore is signaled.  Its command
\* buffer draws into the framebuffer recorded in it and reads the uniform
\* buffer bound to the descriptor set recorded in it; on completion the
\* signal semaphore and the fence are signaled.
GpuComplete ==
    /\ Running
    /\ \E p \in gpuPending :
        /\ image_available[p.wait]
        /\ image_available' = [image_available EXCEPT ![p.wait] = FALSE]
        /\ render_finished' = [render_finished EXCEPT ![p.signal] = TRUE]
        /\ in_flight_fences' = [in_flight_fences EXCEPT ![p.fence] = TRUE]
        /\ gpuPending' = gpuPending \ {p}
    /\ UNCHANGED <<pc, newVars, overlayVars, cleanupVars,
                   current_frame, presentQ, acquired, image_index,
                   uniform_buffers, clock, framesOk, steps, renderResult>>

\* A present request is processed once its wait semaphore is signaled.
PresentExecute ==
    /\ Running
    /\ \E s \in Slots :
        /\ presentQ[s] > 0
        /\ render_finished[s]
        /\ render_finished' = [render_finished EXCEPT ![s] = FALSE]
        /\ presentQ' = [presentQ EXCEPT ![s] = @ - 1]
    /\ UNCHANGED <<pc, newVars, overlayVars, cleanupVars,
                   current_frame, in_flight_fences, image_available,
                   gpuPending, acquired, image_index, uniform_buffers, clock, framesOk,
                   steps, renderResult>>

(***************************************************************************)
(* Renderer::cleanup.                                                      *)
(***************************************************************************)
\* a cleanup that destroys the pipeline layout before the pipeline
DestroyOrder_LayoutFirst(n) ==
    Objects("image_available_semaphore", MAX_FRAMES_IN_FLIGHT)
    \o Objects("render_finished_semaphore", MAX_FRAMES_IN_FLIGHT)
    \o Objects("fence", MAX_FRAMES_IN_FLIGHT)
    \o Objects("command_pool", 1)
    \o Objects("pipeline_layout", 1)
    \o Objects("pipeline", 1)
    \o Objects("framebuffer", n)
    \o Objects("render_pass", 1)
    \o Objects("image_view", n)
    \o Objects("uniform_buffer", n)
    \o Objects("uniform_buffer_memory", n)
    \o Objects("descriptor_pool", 1)
    \o Objects("descriptor_set_layout", 1)
    \o Objects("swapchain", 1)
    \o Objects("device", 1)
    \o Objects("surface", 1)
    \o Objects("instance", 1)

\* the logical device destroyed before the swapchain
DestroyOrder_DeviceBeforeSwapchain(n) ==
    Objects("image_available_semaphore", MAX_FRAMES_IN_FLIGHT)
    \o Objects("render_finished_semaphore", MAX_FRAMES_IN_FLIGHT)
    \o Objects("fence", MAX_FRAMES_IN_FLIGHT)
    \o Objects("command_pool", 1)
    \o Objects("pipeline", 1)
    \o Objects("pipeline_layout", 1)
    \o Objects("framebuffer", n)
    \o Objects("render_pass", 1)
    \o Objects("image_view", n)
    \o Objects("uniform_buffer", n)
    \o Objects("uniform_buffer_memory", n)
    \o Objects("descriptor_pool", 1)
    \o Objects("descriptor_set_layout", 1)
    \o Objects("device", 1)
    \o Objects("swapchain", 1)
    \o Objects("surface", 1)
    \o Objects("instance", 1)

\* the destroy calls of cleanup in the order of the code; n is the image count
DestroyOrder(n) ==
    Objects("image_available_semaphore", MAX_FRAMES_IN_FLIGHT)
    \o Objects("render_finished_semaphore", MAX_FRAMES_IN_FLIGHT)
    \o Objects("fence", MAX_FRAMES_IN_FLIGHT)
    \o Objects("command_pool", 1)
    \o Objects("pipeline", 1)
    \o Objects("pipeline_layout", 1)
    \o Objects("framebuffer", n)
    \o Objects("render_pass", 1)
    \o Objects("image_view", n)
    \o Objects("uniform_buffer", n)
    \o Objects("uniform_buffer_memory", n)
    \o Objects("descriptor_pool", 1)
    \o Objects("descriptor_set_layout", 1)
    \o Objects("swapchain", 1)
    \o Objects("device", 1)
    \o Objects("surface", 1)
    \o Objects("instance", 1)

\* device_wait_idle returns once no submitted work is outstanding
CleanupWaitIdle ==
    /\ pc = "cleanup"
    /\ gpuPending = {}
    /\ idleWaited' = TRUE
    /\ pc' = "destroy"
    /\ UNCHANGED <<newVars, overlayVars, destroyLog, cleanupRuns,
                   rendererVars>>

\* the destroy calls that follow the idle wait
CleanupDestroy ==
    /\ pc = "destroy"
    /\ destroyLog' = destroyLog \o DestroyOrder(swapchain_image_count)
    /\ pc' = "done"
    /\ UNCHANGED <<newVars, overlayVars, idleWaited, cleanupRuns,
                   rendererVars>>

Next ==
    \/ NewStepOk
    \/ NewStepErr
    \/ MainInput
    \/ MainBody
    \/ RenderWait
    \/ RenderReset
    \/ RenderAcquire
    \/ RenderUpdate
    \/ RenderSubmit
    \/ RenderPresent
    \/ RenderErr
    \/ RenderUpdateErr
    \/ MainSleep
    \/ GpuComplete
    \/ PresentExecute
    \/ CleanupWaitIdle
    \/ CleanupDestroy

Spec == Init /\ [][Next]_vars

(***************************************************************************)
(* The frame loop on its own: the overlay is shown and Alt stays held, so  *)
(* every iteration of the loop finds no message, keeps the overlay visible *)
(* and calls render.  The GPU completes every submission it can execute,   *)
(* and a Vulkan call returns when it can: the fence wait once the fence is *)
(* signaled, the acquire once an image is free.                            *)
(***************************************************************************)
GateInit ==
    /\ pc = "new"
    /\ newStep = 1
    /\ createLog = <<>>
    /\ destroyLog = <<>>
    /\ idleWaited = FALSE
    /\ cleanupRuns = 0
    /\ swapchain_image_count = 0
    /\ descriptor_sets = <<>>
    /\ command_buffers = <<>>
    /\ recordings = 0
    /\ boot = NoCall
    /\ visible = TRUE
    /\ selected_segment = None
    /\ prev_visibility = TRUE
    /\ alt_pressed_prev = TRUE
    /\ printed = <<>>
    /\ current_frame = 0
    /\ in_flight_fences = [s \in Slots |-> FALSE]
    /\ image_available = [s \in Slots |-> FALSE]
    /\ render_finished = [s \in Slots |-> FALSE]
    /\ gpuPending = {}
    /\ presentQ = [s \in Slots |-> 0]
    /\ acquired = {}
    /\ image_index = 0
    /\ uniform_buffers = <<>>
    /\ clock = 0
    /\ framesOk = 0
    /\ steps = <<>>
    /\ renderResult = "none"

\* a loop iteration up to the render call: process_input finds an empty
\* queue, Alt is held as before, and the overlay is visible
GateFrame ==
    /\ pc = "input"
    /\ RenderIfVisible(visible)
    /\ clock < MaxFrames
    /\ pc' = "r_wait"
    /\ UNCHANGED <<newVars, overlayVars, cleanupVars, rendererVars>>

\* the Vulkan calls of render that return when they can
RenderStep ==
    \/ RenderWait
    \/ RenderReset
    \/ RenderAcquire
    \/ RenderUpdate
    \/ RenderSubmit
    \/ RenderPresent

GateNext ==
    \/ NewStepOk
    \/ NewStepErr
    \/ GateFrame
    \/ RenderStep
    \/ RenderErr
    \/ RenderUpdateErr
    \/ MainSleep
    \/ GpuComplete
    \/ PresentExecute

GateSpec ==
    /\ GateInit
    /\ [][GateNext]_vars
    /\ WF_vars(GpuComplete)
    /\ WF_vars(RenderStep)


(***************************************************************************)
(* update_selection on its own: any sequence of calls, each with a cursor  *)
(* position from a grid around the centre, from pairs of positions on one  *)
(* ray, or from far to the right of the window just above its middle.      *)
(***************************************************************************)
GridSamples == {<<x, y>> : x, y \in (-HitGrid)..HitGrid}

\* positions at distance 0.5 and 50 on the same ray
RaySamples == {<<30, 40>>, <<3000, 4000>>, <<50, 0>>, <<5000, 0>>,
               <<-30, -40>>, <<-3000, -4000>>, <<0, -50>>, <<0, -5000>>,
               <<-50, 0>>, <<-5000, 0>>, <<40, -30>>, <<4000, -3000>>}

\* normalized x = 50000, normalized y = 0.01
FarSamples == {<<5000000, 1>>}

HitSamples == GridSamples \cup RaySamples \cup FarSamples

HitInit ==
    /\ pc = "hit"
    /\ newStep = 1
    /\ createLog = <<>>
    /\ destroyLog = <<>>
    /\ idleWaited = FALSE
    /\ cleanupRuns = 0
    /\ swapchain_image_count = 0
    /\ descriptor_sets = <<>>
    /\ command_buffers = <<>>
    /\ recordings = 0
    /\ boot = NoCall
    /\ visible \in BOOLEAN
    /\ selected_segment = None
    /\ prev_visibility = FALSE
    /\ alt_pressed_prev = FALSE
    /\ printed = <<>>
    /\ current_frame = 0
    /\ in_flight_fences = [s \in Slots |-> FALSE]
    /\ image_available = [s \in Slots |-> FALSE]
    /\ render_finished = [s \in Slots |-> FALSE]
    /\ gpuPending = {}
    /\ presentQ = [s \in Slots |-> 0]
    /\ acquired = {}
    /\ image_index = 0
    /\ uniform_buffers = <<>>
    /\ clock = 0
    /\ framesOk = 0
    /\ steps = <<>>
    /\ renderResult = "none"

\* one call of update_selection; steps keeps the arguments of the call
HitCall ==
    /\ pc = "hit"
    /\ \E position \in HitSamples :
        LET sel == update_selection(position[1], position[2],
                                    selected_segment)
            content == SelectionWritten(
                          [visible |-> visible,
                           selected_segment |-> selected_segment], sel)
        IN /\ selected_segment' = content.selected_segment
           /\ visible' = content.visible
           /\ printed' = Notifications(selected_segment, sel)
           /\ steps' = <<Call("update_selection", position)>>
    /\ UNCHANGED <<pc, newVars, cleanupVars, prev_visibility,
                   alt_pressed_prev, current_frame, in_flight_fences,
                   image_available, render_finished, gpuPending, presentQ,
                   acquired, image_index, uniform_buffers, clock, framesOk,
                   renderResult>>

HitNext == HitCall

HitSpec == HitInit /\ [][HitNext]_vars

(***************************************************************************)
(* The selections of Renderer::new on their own: pick_physical_device and  *)
(* find_queue_family_index applied to any list of devices, each with any   *)
(* list of queue families.                                                 *)
(***************************************************************************)
\* a queue family: whether its queue_flags contain GRAPHICS and whether
\* get_physical_device_surface_support reports present support for it
QueueFamilies == [graphics : BOOLEAN, present : BOOLEAN]

\* the sequences over S of lengths lo..hi
SeqsOf(S, lo, hi) == UNION {[1..n -> S] : n \in lo..hi}

\* a device is its list of queue families; it has at least one
Devices == SeqsOf(QueueFamilies, 1, MaxFamilies)
DeviceLists == SeqsOf(Devices, 0, MaxDevices)

\* is_device_suitable: the loop over the queue families from position index
\* on; has_graphics and has_present are the loop's two flags, which are
\* never cleared between families
RECURSIVE SuitableFrom(_, _, _, _)
SuitableFrom(queue_families, index, has_graphics, has_present) ==
    IF index > Len(queue_families) THEN FALSE
    ELSE LET g == has_graphics \/ queue_families[index].graphics
             p == has_present \/ queue_families[index].present
         IN IF g /\ p THEN TRUE
            ELSE SuitableFrom(queue_families, index + 1, g, p)

is_device_suitable(queue_families) ==
    SuitableFrom(queue_families, 1, FALSE, FALSE)

\* pick_physical_device: the first suitable device in enumeration order, as
\* Some(position from 0), or None for "Failed to find a suitable GPU!"
pick_physical_device(physical_devices) ==
    LET suitable == {d \in DOMAIN physical_devices :
                        is_device_suitable(physical_devices[d])}
    IN IF suitable = {} THEN None
       ELSE Some((CHOOSE d \in suitable : \A e \in suitable : d <= e) - 1)

\* find_queue_family_index: the first family with GRAPHICS and present
\* support, as Some(index), or None for "Failed to find a suitable queue
\* family."
find_queue_family_index(queue_families) ==
    LET both == {i \in DOMAIN queue_families :
                    queue_families[i].graphics /\ queue_families[i].present}
    IN IF both = {} THEN None
       ELSE Some((CHOOSE i \in both : \A j \in both : i <= j) - 1)

\* Renderer::new from pick_physical_device to the creation of the queue:
\* each error ends new
DeviceBootstrap(physical_devices) ==
    LET physical_device == pick_physical_device(physical_devices) IN
    IF physical_device = None
    THEN [physical_device |-> None, queue_family_index |-> None,
          error |-> "Failed to find a suitable GPU!"]
    ELSE LET queue_family_index ==
                 find_queue_family_index(
                     physical_devices[physical_device[1] + 1])
         IN IF queue_family_index = None
            THEN [physical_device |-> physical_device,
                  queue_family_index |-> None,
                  error |-> "Failed to find a suitable queue family."]
            ELSE [physical_device |-> physical_device,
                  queue_family_index |-> queue_family_index,
                  error |-> ""]

(***************************************************************************)
(* create_swapchain: what it asks the swap chain to be, from what the      *)
(* surface reports.                                                        *)
(***************************************************************************)
PreferredFormat ==
    [format |-> "B8G8R8A8_UNORM", color_space |-> "SRGB_NONLINEAR"]

\* VkSurfaceFormatKHR values a surface may report
SurfaceFormats ==
    [format : {"B8G8R8A8_UNORM", "R8G8B8A8_UNORM", "UNDEFINED"},
     color_space : {"SRGB_NONLINEAR", "EXTENDED_SRGB_LINEAR"}]

\* the first reported format, whatever it is
SurfaceFormat_First(surface_formats) == surface_formats[1]

\* surface_format: a lone UNDEFINED entry leaves the choice to the
\* application; otherwise the first entry equal to the preferred pair, or
\* the first entry when there is none
SurfaceFormat(surface_formats) ==
    IF Len(surface_formats) = 1 /\ surface_formats[1].format = "UNDEFINED"
    THEN PreferredFormat
    ELSE LET found == {k \in DOMAIN surface_formats :
                          /\ surface_formats[k].format = "B8G8R8A8_UNORM"
                          /\ surface_formats[k].color_space = "SRGB_NONLINEAR"}
         IN IF found = {} THEN surface_formats[1]
            ELSE surface_formats[CHOOSE k \in found :
                                    \A j \in found : k <= j]

\* present_mode
PresentMode(present_modes) ==
    IF "MAILBOX" \in present_modes THEN "MAILBOX" ELSE "FIFO"

\* u32::MAX as the width of current_extent: the surface leaves the extent
\* to the swap chain (written -1, the same 32 bits)
U32_MAX == -1

\* swap_extent
SwapExtent(current_extent) ==
    IF current_extent.width # U32_MAX THEN current_extent
    ELSE [width |-> 800, height |-> 600]

\* one image more than the minimum, whatever the maximum
ImageCount_Unclamped(min_image_count, max_image_count) ==
    min_image_count + 1

\* image_count
ImageCount(min_image_count, max_image_count) ==
    LET image_count == min_image_count + 1 IN
    IF max_image_count > 0 /\ image_count > max_image_count
    THEN max_image_count
    ELSE image_count

CompositeAlphaFlags == {"OPAQUE", "PRE_MULTIPLIED", "POST_MULTIPLIED",
                        "INHERIT"}

\* inherited preferred to post-multiplied
CompositeAlpha_InheritFirst(composite_alpha_flags) ==
    IF "PRE_MULTIPLIED" \in composite_alpha_flags THEN "PRE_MULTIPLIED"
    ELSE IF "INHERIT" \in composite_alpha_flags THEN "INHERIT"
    ELSE IF "POST_MULTIPLIED" \in composite_alpha_flags THEN "POST_MULTIPLIED"
    ELSE "OPAQUE"

\* composite_alpha
CompositeAlpha(composite_alpha_flags) ==
    IF "PRE_MULTIPLIED" \in composite_alpha_flags THEN "PRE_MULTIPLIED"
    ELSE IF "POST_MULTIPLIED" \in composite_alpha_flags THEN "POST_MULTIPLIED"
    ELSE IF "INHERIT" \in composite_alpha_flags THEN "INHERIT"
    ELSE "OPAQUE"

\* VkSurfaceCapabilitiesKHR as a surface may report them: at least one
\* image, a maximum of 0 (none) or at least the minimum, at least one
\* composite-alpha mode
SurfaceCapabilities ==
    {c \in [min_image_count : 1..MaxMinImages,
            max_image_count : 0..(MaxMinImages + 2),
            supported_composite_alpha : SUBSET CompositeAlphaFlags \ {{}},
            current_extent : {[width |-> WINDOW_WIDTH,
                               height |-> WINDOW_HEIGHT],
                              [width |-> U32_MAX, height |-> U32_MAX]}] :
        c.max_image_count = 0 \/ c.max_image_count >= c.min_image_count}

\* at least one surface format is reported
SurfaceFormatLists == SeqsOf(SurfaceFormats, 1, MaxFormats)

\* FIFO is always supported
PresentModeSets == {{"FIFO"}, {"FIFO", "MAILBOX"}}

\* the VkSwapchainCreateInfoKHR create_swapchain builds
SwapchainCreateInfo(surface_capabilities, surface_formats, present_modes) ==
    LET surface_format == SurfaceFormat(surface_formats) IN
    [min_image_count |->
         ImageCount(surface_capabilities.min_image_count,
                    surface_capabilities.max_image_count),
     image_format |-> surface_format.format,
     image_color_space |-> surface_format.color_space,
     image_extent |-> SwapExtent(surface_capabilities.current_extent),
     composite_alpha |->
         CompositeAlpha(surface_capabilities.supported_composite_alpha),
     present_mode |-> PresentMode(present_modes)]

(***************************************************************************)
(* The uniform record and its layout in memory.                            *)
(***************************************************************************)
\* the fields of UniformBufferObject in the order of their declaration,
\* with the size and the alignment of their types in bytes
F32 == [size |-> 4, align |-> 4]
I32 == [size |-> 4, align |-> 4]
ArrayOf(type, n) == [size |-> n * type.size, align |-> type.align]

Field(name, type) == [name |-> name, size |-> type.size, align |-> type.align]

\* a declaration with time ahead of segments
UniformBufferObject_TimeFirst ==
    << Field("radius", F32), Field("inner_radius", F32),
       Field("time", F32), Field("segments", I32),
       Field("mouse_pos", ArrayOf(F32, 2)), Field("segment_gap", F32),
       Field("item_selected", I32), Field("_padding0", ArrayOf(F32, 1)),
       Field("_padding1", ArrayOf(F32, 4)) >>

UniformBufferObject ==
    << Field("radius", F32), Field("inner_radius", F32),
       Field("segments", I32), Field("time", F32),
       Field("mouse_pos", ArrayOf(F32, 2)), Field("segment_gap", F32),
       Field("item_selected", I32), Field("_padding0", ArrayOf(F32, 1)),
       Field("_padding1", ArrayOf(F32, 4)) >>

\* n rounded up to a multiple of a
AlignUp(n, a) == ((n + a - 1) \div a) * a

\* repr(C): a field starts at the end of the one before it, rounded up to
\* its own alignment
RECURSIVE OffsetOf(_, _)
OffsetOf(fields, k) ==
    IF k = 1 THEN 0
    ELSE AlignUp(OffsetOf(fields, k - 1) + fields[k - 1].size,
                 fields[k].align)

Max(a, b) == IF a >= b THEN a ELSE b

\* the alignment of the struct: the largest of its fields' alignments and
\* of the align(..) attribute
RECURSIVE AlignOf(_, _)
AlignOf(fields, declared) ==
    IF fields = <<>> THEN declared
    ELSE Max(fields[1].align, AlignOf(Tail(fields), declared))

\* size_of: the end of the last field rounded up to the struct's alignment
SizeOf(fields, declared) ==
    AlignUp(OffsetOf(fields, Len(fields)) + fields[Len(fields)].size,
            AlignOf(fields, declared))

\* the 4-byte word at byte offset b of a record laid out as fields: the
\* name of the field it belongs to, its index within the field and its
\* value; padding fields are written as 0, and bytes outside every field
\* are the tail padding of the struct
WordAt(fields, record, b) ==
    LET inside == {k \in DOMAIN fields :
                      /\ OffsetOf(fields, k) <= b
                      /\ b < OffsetOf(fields, k) + fields[k].size}
    IN IF inside = {} THEN <<"tail", 0, 0>>
       ELSE LET k == CHOOSE i \in inside : TRUE
                index == (b - OffsetOf(fields, k)) \div 4
                name == fields[k].name
            IN IF name \in {"_padding0", "_padding1"}
               THEN <<name, index, 0>>
               ELSE IF name = "mouse_pos"
                    THEN <<name, index, record.mouse_pos[index + 1]>>
                    ELSE <<name, index, record[name]>>

\* copy_from_nonoverlapping(ubo, data, 1): the words of the mapped memory
\* after the copy, word w at byte offset 4 * (w - 1)
Copied(fields, record, declared) ==
    [w \in 1..(SizeOf(fields, declared) \div 4) |->
        WordAt(fields, record, 4 * (w - 1))]

UniformRecords ==
    {UniformRecord(time, <<NormalizedX(c[1]), NormalizedY(c[2])>>, item) :
        time \in 0..MaxFrames, c \in CursorSamples,
        item \in (-1)..(SEGMENTS - 1)}

(***************************************************************************)
(* read_spirv_shader: a shader file as a sequence of 32-bit words.         *)
(***************************************************************************)
\* byte values of a shader file; the highest one keeps a word below 2^31
ByteSamples == {0, 1, 127}

\* a file that cannot be opened, one that cannot be read, or its bytes
ShaderFiles ==
    {[status |-> "missing", bytes |-> <<>>],
     [status |-> "unreadable", bytes |-> <<>>]}
    \cup {[status |-> "ok", bytes |-> b] :
             b \in SeqsOf(ByteSamples, 0, MaxBytes)}

\* the four bytes read with the first one as the most significant
from_be_bytes(chunk) ==
    16777216 * chunk[1] + 65536 * chunk[2] + 256 * chunk[3] + chunk[4]

\* u32::from_le_bytes
from_le_bytes(chunk) ==
    chunk[1] + 256 * chunk[2] + 65536 * chunk[3] + 16777216 * chunk[4]

\* buffer.chunks_exact(4): chunk j, from 1
ChunkAt(buffer, j) == SubSeq(buffer, 4 * j - 3, 4 * j)

read_spirv_shader(file) ==
    IF file.status = "missing"
    THEN [error |-> "Failed to open shader file", words |-> <<>>]
    ELSE IF file.status = "unreadable"
    THEN [error |-> "Failed to read shader file", words |-> <<>>]
    ELSE IF Len(file.bytes) % 4 # 0
    THEN [error |-> "Shader bytecode is not properly aligned.",
          words |-> <<>>]
    ELSE [error |-> "",
          words |-> [j \in 1..(Len(file.bytes) \div 4) |->
                        from_le_bytes(ChunkAt(file.bytes, j))]]

BootInit ==
    /\ pc = "boot"
    /\ newStep = 1
    /\ createLog = <<>>
    /\ destroyLog = <<>>
    /\ idleWaited = FALSE
    /\ cleanupRuns = 0
    /\ swapchain_image_count = 0
    /\ descriptor_sets = <<>>
    /\ command_buffers = <<>>
    /\ recordings = 0
    /\ boot = NoCall
    /\ visible = FALSE
    /\ selected_segment = None
    /\ prev_visibility = FALSE
    /\ alt_pressed_prev = FALSE
    /\ printed = <<>>
    /\ current_frame = 0
    /\ in_flight_fences = [s \in Slots |-> FALSE]
    /\ image_available = [s \in Slots |-> FALSE]
    /\ render_finished = [s \in Slots |-> FALSE]
    /\ gpuPending = {}
    /\ presentQ = [s \in Slots |-> 0]
    /\ acquired = {}
    /\ image_index = 0
    /\ uniform_buffers = <<>>
    /\ clock = 0
    /\ framesOk = 0
    /\ steps = <<>>
    /\ renderResult = "none"

bootFrame == <<newStep, createLog, swapchain_image_count, descriptor_sets,
               command_buffers, recordings, overlayVars, cleanupVars,
               rendererVars>>

\* the device selection of one start of the program
BootDevice ==
    /\ pc = "boot"
    /\ \E physical_devices \in DeviceLists :
          boot' = [call |-> "device", input |-> physical_devices,
                   output |-> DeviceBootstrap(physical_devices)]
    /\ pc' = "booted"
    /\ UNCHANGED bootFrame

\* a uniform buffer is created, bound to its descriptor set and written:
\* create_uniform_buffers, create_descriptor_sets and update_uniform_buffer
\* all take their size from size_of::<UniformBufferObject>()
UniformCopy ==
    /\ pc = "boot"
    /\ \E record \in UniformRecords :
          LET size == SizeOf(UniformBufferObject, UBO_ALIGN) IN
          boot' = [call |-> "uniform", input |-> record,
                   output |-> [buffer_size |-> size, range |-> size,
                               mapped |-> size,
                               data |-> Copied(UniformBufferObject, record,
                                               UBO_ALIGN)]]
    /\ pc' = "booted"
    /\ UNCHANGED bootFrame

\* create_swapchain on what one surface reports
BootSwapchain ==
    /\ pc = "boot"
    /\ \E surface_capabilities \in SurfaceCapabilities,
          surface_formats \in SurfaceFormatLists,
          present_modes \in PresentModeSets :
          boot' = [call |-> "swapchain",
                   input |-> [surface_capabilities |-> surface_capabilities,
                              surface_formats |-> surface_formats,
                              present_modes |-> present_modes],
                   output |-> SwapchainCreateInfo(surface_capabilities,
                                                  surface_formats,
                                                  present_modes)]
    /\ pc' = "booted"
    /\ UNCHANGED bootFrame

\* create_graphics_pipeline loads one shader file
ReadShader ==
    /\ pc = "boot"
    /\ \E file \in ShaderFiles :
          boot' = [call |-> "shader", input |-> file,
                   output |-> read_spirv_shader(file)]
    /\ pc' = "booted"
    /\ UNCHANGED bootFrame

BootNext ==
    \/ BootDevice
    \/ ReadShader
    \/ BootSwapchain
    \/ UniformCopy

BootSpec == BootInit /\ [][BootNext]_vars

(***************************************************************************)
(* Properties of the frame scheduler (render).                             *)
(***************************************************************************)
\* the slot of the render call whose steps are in `steps`: after a
\* successful return current_frame has already advanced
CallSlot ==
    IF pc = "sleep" THEN (framesOk - 1) % MAX_FRAMES_IN_FLIGHT
    ELSE current_frame

\* the calls of one successful render on slot s with acquired image i and
\* cursor sample c
RenderSteps(s, i, c) ==
    << Call("wait_for_fences", <<s>>),
       Call("reset_fences", <<s>>),
       Call("acquire_next_image", <<i, s>>),
       Call("update_selection", <<NormalizedX(c[1]), NormalizedY(c[2])>>),
       Call("update_uniform_buffer", <<i>>),
       Call("queue_submit", <<i, s, "COLOR_ATTACHMENT_OUTPUT", s, s>>),
       Call("queue_present", <<i, s>>),
       Call("advance", <<(s + 1) % MAX_FRAMES_IN_FLIGHT>>) >>

IsPrefix(a, b) == Len(a) <= Len(b) /\ a = SubSeq(b, 1, Len(a))

\* the number of calls render has made when it stands at position p
StepsBefore(p) ==
    CASE p = "r_wait" -> 0
      [] p = "r_reset" -> 1
      [] p = "r_acquire" -> 2
      [] p = "r_update" -> 3
      [] p = "r_submit" -> 5
      [] OTHER -> 6

\* C1: a render call on slot s performs, in this order and nothing else:
\* wait on fence s, reset fence s, acquire image i signaling
\* image_available[s], hit test and write of uniform buffer i, submit of
\* command buffer i waiting on image_available[s] at the color-attachment
\* -output stage and signaling render_finished[s] and fence s, present of
\* image i waiting on render_finished[s], advance of current_frame.  At
\* every moment the calls made so far are a prefix of that sequence, and a
\* call that returned Ok has made all of them.
C1_RenderStepOrder ==
    steps # <<>> =>
        \E i \in 0..(swapchain_image_count - 1), c \in CursorSamples :
            LET expected == RenderSteps(CallSlot, i, c) IN
            /\ IsPrefix(steps, expected)
            /\ (Len(steps) >= 3 => i = image_index)
            /\ (pc \in RenderPcs => Len(steps) = StepsBefore(pc))
            /\ (pc = "sleep" => steps = expected)

\* a render call on slot 1 that acquired image 0 has returned Ok
C1_Witness ==
    /\ pc = "sleep"
    /\ renderResult = "Ok"
    /\ Len(steps) = 8
    /\ steps[1].args = <<1>>
    /\ steps[7].args = <<0, 1>>

\* C2: whenever render has rewritten uniform buffer i, or has submitted
\* command buffer i, no earlier submission of command buffer i is still
\* outstanding on the GPU, whatever the image count and whatever order the
\* swapchain hands out its images in.
C2_NoRewriteWhileExecuting ==
    pc \in {"r_submit", "r_present"} =>
        \A p \in gpuPending : p.time < clock => p.cmd # image_index

C4_RoundRobin ==
    /\ current_frame = framesOk % MAX_FRAMES_IN_FLIGHT
    /\ (pc = "r_wait" => steps = <<>>)
    /\ (steps # <<>> => steps[1] = Call("wait_for_fences", <<CallSlot>>))

\* three render calls have returned Ok
C4_Witness ==
    /\ framesOk = 3
    /\ current_frame = 1
    /\ steps # <<>>

\* C5: each of the two slots has at most one submitted frame that has not
\* completed, and its fence is unsignaled while that frame is outstanding;
\* so at most two frames are in flight, whatever the image count.
C5_FramesInFlight ==
    /\ \A s \in Slots :
          /\ Cardinality({p \in gpuPending : p.fence = s}) <= 1
          /\ (\E p \in gpuPending : p.fence = s) => ~in_flight_fences[s]
    /\ Cardinality(gpuPending) <= MAX_FRAMES_IN_FLIGHT

\* two frames are in flight on a swapchain of three images
C5_Witness ==
    /\ Cardinality(gpuPending) = 2
    /\ swapchain_image_count = 3

\* the uniform buffer a submission's command buffer reads, through the
\* descriptor set recorded in it
BufferRead(p) == descriptor_sets[command_buffers[p.cmd].descriptor_set]

\* C6: the uniform buffer written, the command buffer submitted and the
\* image presented by a render call all carry the acquired index i;
\* command buffer i is recorded with framebuffer i and with descriptor set
\* i, which is bound to uniform buffer i; so the GPU work of a frame reads
\* exactly the uniform state written in that frame.
C6_FrameReadsItsOwnState ==
    /\ \A i \in DOMAIN command_buffers :
          /\ command_buffers[i].framebuffer = i
          /\ descriptor_sets[command_buffers[i].descriptor_set] = i
    /\ (Len(steps) >= 5 => steps[5].args[1] = steps[3].args[1])
    /\ (Len(steps) >= 6 => steps[6].args[1] = steps[3].args[1])
    /\ (Len(steps) >= 7 => steps[7].args[1] = steps[3].args[1])
    /\ \A p \in gpuPending : uniform_buffers[BufferRead(p)].time = p.time

(***************************************************************************)
(* Properties of the teardown (cleanup) and of main's loop.                *)
(***************************************************************************)
\* the kinds of a log of objects, runs of one kind collapsed
RECURSIVE Kinds(_)
Kinds(log) ==
    IF log = <<>> THEN <<>>
    ELSE LET rest == Kinds(Tail(log)) IN
         IF rest # <<>> /\ Head(rest) = Head(log)[1]
         THEN rest
         ELSE <<Head(log)[1]>> \o rest

Pos(log, x) == CHOOSE k \in 1..Len(log) : log[k] = x

Holds(log, x) == \E k \in 1..Len(log) : log[k] = x

\* C8: cleanup destroys in the strict reverse of the order of creation in
\* Renderer::new: of two destroyed objects of different kinds, the one
\* created later is destroyed first.
C8_ReverseOfCreation ==
    pc = "done" =>
        \A a, b \in 1..Len(createLog) :
            (/\ a < b
             /\ createLog[a][1] # createLog[b][1]
             /\ Holds(destroyLog, createLog[a])
             /\ Holds(destroyLog, createLog[b]))
            => Pos(destroyLog, createLog[b]) < Pos(destroyLog, createLog[a])

\* C9: on every shutdown, by a quit message or by a failed frame step,
\* cleanup runs exactly once, and no frame is issued once it has started.
C9_CleanupOnEveryShutdown ==
    /\ cleanupRuns <= 1
    /\ (cleanupRuns > 0 => pc \in {"cleanup", "destroy", "done"})
    /\ (pc \in {"done", "panicked"} /\ newStep > Len(NewSteps)
          => cleanupRuns = 1)

\* C10: render is called only in iterations in which the overlay is
\* visible; a hidden iteration makes no call of the renderer.
C10_RenderOnlyWhenVisible ==
    (pc \in RenderPcs \/ steps # <<>>) => visible

\* a hidden iteration has ended, after frames were rendered, without a
\* call of the renderer
C10_Witness ==
    /\ pc = "sleep"
    /\ ~visible
    /\ steps = <<>>
    /\ framesOk >= 1
    /\ gpuPending # {}

(***************************************************************************)
(* Properties of the hit test (update_selection).                          *)
(***************************************************************************)
\* a call of update_selection on its own has returned
HitCalled == pc = "hit" /\ steps # <<>>

\* the arguments (normalized_mouse_x, normalized_mouse_y) of that call
HitInput == steps[1].args

\* the position is near enough for its squares to be compared
Near(position) == Abs(position[1]) <= 10000 /\ Abs(position[2]) <= 10000

SquaredDist(position) ==
    position[1] * position[1] + position[2] * position[2]

\* C11: for every cursor position at a distance from the centre strictly
\* less than inner_radius, whatever its angle, update_selection leaves
\* selected_segment at None; at a distance of exactly inner_radius a
\* segment is selected.
C11_InnerRadius ==
    (HitCalled /\ Near(HitInput)) =>
        /\ (SquaredDist(HitInput) < INNER_RADIUS * INNER_RADIUS
               => selected_segment = None)
        /\ (SquaredDist(HitInput) = INNER_RADIUS * INNER_RADIUS
               => selected_segment # None)

\* a call with the cursor inside the inner radius, off the axes, has
\* cleared a selection
C11_Witness ==
    /\ HitCalled
    /\ HitInput = <<5, -5>>
    /\ selected_segment = None
    /\ printed # <<>>

\* a + b * sqrt(3) >= 0, for integers a and b
SurdNonNeg(a, b) ==
    IF a >= 0 /\ b >= 0 THEN TRUE
    ELSE IF a <= 0 /\ b <= 0 THEN FALSE
    ELSE IF a > 0 THEN a * a >= 3 * b * b
    ELSE 3 * b * b >= a * a

\* twice the direction of the boundary angle k * (2*pi/6), as the pair
\* <<u, v>> standing for (u, v * sqrt(3))
Boundary(k) ==
    CASE k % SEGMENTS = 0 -> <<2, 0>>
      [] k % SEGMENTS = 1 -> <<1, 1>>
      [] k % SEGMENTS = 2 -> <<-1, 1>>
      [] k % SEGMENTS = 3 -> <<-2, 0>>
      [] k % SEGMENTS = 4 -> <<-1, -1>>
      [] OTHER -> <<1, -1>>

\* the direction (x, y) is at or counter-clockwise of boundary k, within
\* half a turn: the cross product of the boundary and (x, y) is >= 0
AtOrAfter(k, x, y) == SurdNonNeg(Boundary(k)[1] * y, -(Boundary(k)[2] * x))

\* the angle of (x, y) lies in [k * (2*pi/6), (k + 1) * (2*pi/6))
InSegment(k, x, y) == AtOrAfter(k, x, y) /\ ~AtOrAfter(k + 1, x, y)

\* C12: for every cursor position at a distance of inner_radius or more,
\* update_selection sets selected_segment to floor(angle / (2*pi/6)) for
\* the angle of (nx, -ny) in [0, 2*pi): an index in [0, 6) that depends
\* only on the position.
C12_SegmentIndexInRange ==
    (HitCalled /\ DistAtLeast(HitInput[1], HitInput[2], INNER_RADIUS)) =>
        /\ selected_segment # None
        /\ selected_segment[1] \in 0..(SEGMENTS - 1)
        /\ InSegment(selected_segment[1], HitInput[1], -HitInput[2])

\* the positions whose products fit the comparison of rays
NearSamples == {q \in HitSamples : Near(q)}

\* p and q lie on one ray from the centre
SameRay(p, q) ==
    /\ p[1] * q[2] = p[2] * q[1]
    /\ p[1] * q[1] >= 0
    /\ p[2] * q[2] >= 0
    /\ p # <<0, 0>>
    /\ q # <<0, 0>>

OnBoundary(position) ==
    /\ position[2] = 0
    /\ Abs(position[1]) >= INNER_RADIUS

\* C14, as stated: a position outside the inner radius whose angle is
\* exactly the boundary k * (2*pi/6) of segments k-1 and k resolves to the
\* lower index of the two.
C14_BoundaryToLowerIndex ==
    (HitCalled /\ OnBoundary(HitInput)) =>
        selected_segment =
            IF HitInput[1] < 0 THEN Some((SEGMENTS \div 2) - 1) ELSE Some(0)

\* C14, amended: a position outside the inner radius whose angle is exactly
\* the boundary k * (2*pi/6) resolves to segment k, the segment that
\* begins at that angle: the higher index of the adjacent segments k-1 and
\* k when k >= 1.
C14_BoundaryToSegmentK ==
    (HitCalled /\ OnBoundary(HitInput)) =>
        selected_segment =
            IF HitInput[1] < 0 THEN Some(SEGMENTS \div 2) ELSE Some(0)

\* a call with the cursor straight left of the centre, on the boundary of
\* segments 2 and 3
C14_Witness ==
    /\ HitCalled
    /\ HitInput = <<-50, 0>>
    /\ selected_segment = Some(3)

\* C15: a call of update_selection prints a notification if and only if
\* the selection it computes differs from selected_segment before the
\* call, it prints exactly one, and after the call selected_segment is
\* the computed selection; so calls with the cursor inside the inner
\* radius after a selection print the cleared notification once.
C15_NotifyOnChange ==
    [][pc' = "hit" =>
         /\ selected_segment' =
               update_selection(steps'[1].args[1], steps'[1].args[2], None)
         /\ (selected_segment' = selected_segment => printed' = <<>>)
         /\ (selected_segment' # selected_segment =>
               printed' =
                  IF selected_segment' = None
                  THEN <<Message("No Segment Selected", -1)>>
                  ELSE <<Message("Selected Segment", selected_segment'[1])>>)
      ]_vars

\* a call inside the inner radius has cleared a selection and printed it
C15_Witness ==
    /\ HitCalled
    /\ HitInput = <<0, 0>>
    /\ selected_segment = None
    /\ printed = <<Message("No Segment Selected", -1)>>

(***************************************************************************)
(* Properties of the hit test inside the frame loop.                       *)
(***************************************************************************)
\* the number of calls named name in a log of calls
RECURSIVE CallCount(_, _)
CallCount(log, name) ==
    IF log = <<>> THEN 0
    ELSE (IF Head(log).call = name THEN 1 ELSE 0)
         + CallCount(Tail(log), name)

\* C16: in every iteration in which the overlay is visible render calls
\* update_selection exactly once, with the cursor position sampled in that
\* frame, whether or not the cursor moved, and before the uniform record
\* of the frame is built: the record carries that position and the
\* selection the call left.
C16_HitTestEveryVisibleFrame ==
    /\ CallCount(steps, "update_selection") <= 1
    /\ ((pc \in {"r_submit", "r_present"} \/ (pc = "sleep" /\ visible))
          => CallCount(steps, "update_selection") = 1)
    /\ (Len(steps) >= 5 =>
          /\ steps[4].call = "update_selection"
          /\ steps[5].call = "update_uniform_buffer"
          /\ uniform_buffers[steps[5].args[1]].mouse_pos = steps[4].args
          /\ uniform_buffers[steps[5].args[1]].item_selected =
                UnwrapOr(selected_segment, -1)
          /\ selected_segment =
                update_selection(steps[4].args[1], steps[4].args[2], None))

\* a second visible frame has ended with the cursor where it was: nothing
\* was printed, and the hit test ran all the same
C16_Witness ==
    /\ pc = "sleep"
    /\ visible
    /\ framesOk >= 2
    /\ printed = <<>>
    /\ selected_segment # None
    /\ CallCount(steps, "update_selection") = 1

\* C17: the cursor is normalized as nx = (relX / width) * 2 - 1 and
\* ny = 1 - (relY / height) * 2; in the 800x600 window the cursor (400, 150)
\* gives (0, 0.5) and segment 4, and (400, 300) gives (0, 0) and no
\* segment.
C17_Normalization ==
    Len(steps) >= 4 =>
        /\ \E cursor \in CursorSamples :
              steps[4].args =
                 << (200 * cursor[1]) \div WINDOW_WIDTH - 100,
                    100 - (200 * cursor[2]) \div WINDOW_HEIGHT >>
        /\ (steps[4].args = <<0, 50>> <=> selected_segment = Some(4))
        /\ (steps[4].args = <<0, 0>> <=> selected_segment = None)

\* a frame with the cursor at (400, 150) has selected segment 4
C17_Witness ==
    /\ Len(steps) >= 5
    /\ steps[4].args = <<0, 50>>
    /\ selected_segment = Some(4)
    /\ uniform_buffers[image_index].item_selected = 4

\* C18: render and update_selection never write OverlayContent.visible;
\* the only field of OverlayContent a render call changes is
\* selected_segment.  (Neither reads visible: no operator of render takes
\* it.)
C18_RenderLeavesVisible ==
    [][(pc \in RenderPcs) => (visible' = visible)]_vars

\* a render call has changed selected_segment
C18_Witness ==
    /\ pc = "r_submit"
    /\ visible
    /\ printed = <<Message("Selected Segment", 4)>>
    /\ selected_segment = Some(4)

\* C19, as stated: selected_segment is written only by update_selection.
C19_SingleWriter ==
    [][selected_segment' # selected_segment => pc = "r_update"]_vars

\* C19, amended: selected_segment is written by update_selection and by
\* main, which resets it to None when the overlay becomes hidden; it is
\* read by main at that transition, to print the action of the segment,
\* and by render, which copies it into item_selected of the uniform
\* record.
C19_WritersAndReaders ==
    [][/\ (selected_segment' # selected_segment =>
             \/ pc = "r_update"
             \/ (pc = "body" /\ prev_visibility /\ ~visible'
                   /\ selected_segment' = None))
       /\ ((pc = "body" /\ prev_visibility /\ ~visible') =>
             /\ selected_segment' = None
             /\ (selected_segment # None =>
                   printed' = <<Message("Executing action for segment",
                                        selected_segment[1])>>))
       /\ ((pc = "r_update" /\ pc' = "r_submit") =>
             uniform_buffers'[image_index].item_selected =
                UnwrapOr(selected_segment', -1))
      ]_vars

\* main has read the selection of a hidden overlay and reset it
C19_Witness ==
    /\ pc = "sleep"
    /\ ~visible
    /\ selected_segment = None
    /\ printed = <<Message("Executing action for segment", 4)>>

\* the number of objects of one kind in a log
KindCount(log, kind) ==
    Cardinality({k \in DOMAIN log : log[k][1] = kind})

\* C20: once Renderer::new has succeeded, and after any render calls, there
\* are swapchain_image_count image views, framebuffers, uniform buffers,
\* uniform-buffer memories, descriptor sets and command buffers, and 2
\* image_available semaphores, 2 render_finished semaphores and 2 fences,
\* whatever the image count.
C20_ResourceCounts ==
    newStep > Len(NewSteps) =>
        /\ swapchain_image_count \in ImageCounts
        /\ \A kind \in {"image_view", "framebuffer", "uniform_buffer",
                        "uniform_buffer_memory", "descriptor_set",
                        "command_buffer"} :
              KindCount(createLog, kind) = swapchain_image_count
        /\ \A kind \in {"image_available_semaphore",
                        "render_finished_semaphore", "fence"} :
              KindCount(createLog, kind) = MAX_FRAMES_IN_FLIGHT
        /\ DOMAIN uniform_buffers = 0..(swapchain_image_count - 1)
        /\ DOMAIN descriptor_sets = 0..(swapchain_image_count - 1)
        /\ DOMAIN command_buffers = 0..(swapchain_image_count - 1)
        /\ DOMAIN in_flight_fences = 0..(MAX_FRAMES_IN_FLIGHT - 1)

\* frames have been rendered on a swapchain of three images
C20_Witness ==
    /\ framesOk >= 2
    /\ swapchain_image_count = 3
    /\ KindCount(createLog, "command_buffer") = 3
    /\ KindCount(createLog, "fence") = 2


(***************************************************************************)
(* Properties of the bootstrap (Renderer::new).                            *)
(***************************************************************************)
\* a device with one queue family that supports both graphics and present
HasCombinedFamily(queue_families) ==
    \E i \in DOMAIN queue_families :
        queue_families[i].graphics /\ queue_families[i].present

\* the positions, from 0, of the devices of a list with a combined family
Qualifying(physical_devices) ==
    {d - 1 : d \in {e \in DOMAIN physical_devices :
                       HasCombinedFamily(physical_devices[e])}}

\* C21: for every device list, the device selected is the first one in
\* enumeration order that has a queue family supporting both graphics and
\* present, the queue comes from such a family of it, and initialization
\* fails when no device has such a family and only then.
C21_FirstDeviceWithCombinedFamily ==
    boot.call = "device" =>
        LET physical_devices == boot.input
            out == boot.output
            qualifying == Qualifying(physical_devices)
        IN IF qualifying = {} THEN out.error # ""
           ELSE /\ out.error = ""
                /\ out.physical_device # None
                /\ out.physical_device[1] \in qualifying
                /\ \A d \in qualifying : out.physical_device[1] <= d
                /\ out.queue_family_index # None
                /\ LET family == physical_devices[out.physical_device[1] + 1]
                                    [out.queue_family_index[1] + 1]
                   IN family.graphics /\ family.present

\* every error a step of Renderer::new can return
AllNewErrors == UNION {NewErrors(NewSteps[k]) : k \in DOMAIN NewSteps}

\* the objects created by the steps of Renderer::new before position k
CreatedBefore(k, n) ==
    UNION {{CreatedBy(NewSteps[j], n)[i] :
               i \in DOMAIN CreatedBy(NewSteps[j], n)} : j \in 1..(k - 1)}

\* C22: when a step of Renderer::new fails, new returns at that step with
\* an error of that step: only the objects of the earlier steps exist, no
\* later step executes, the step is not tried again and no frame is ever
\* scheduled.
C22_NewAbortsAtFailedStep ==
    [][ /\ (renderResult' \in AllNewErrors /\ renderResult' # renderResult)
            => /\ pc = "new"
               /\ pc' = "panicked"
               /\ renderResult' \in NewErrors(NewSteps[newStep])
               /\ newVars' = newVars
               /\ \A k \in DOMAIN createLog :
                     createLog[k] \in
                        CreatedBefore(newStep, swapchain_image_count)
        /\ (renderResult \in AllNewErrors)
            => /\ pc' = "panicked"
               /\ newVars' = newVars
               /\ steps' = <<>>
               /\ framesOk' = 0
               /\ clock' = 0
               /\ gpuPending' = {} ]_vars

\* create_swapchain has failed: the instance, the surface and the device
\* exist and nothing else
C22_Witness ==
    /\ pc = "panicked"
    /\ renderResult = "Failed to create swapchain"
    /\ newStep = 7
    /\ createLog = <<<<"instance", 0>>, <<"surface", 0>>, <<"device", 0>>>>
    /\ framesOk = 0

(***************************************************************************)
(* Properties of a failing frame.                                          *)
(***************************************************************************)
\* every error render can return
RenderErrors == {ErrorAt(p) : p \in RenderPcs}

\* C23: when the fence wait, the fence reset, the acquire, the submit or
\* the present of a render call fails, render returns that error at once:
\* no later step of the frame runs, current_frame does not advance, nothing
\* is retried, and the loop ends without another frame.  (A failure to map
\* the uniform buffer returns the same way, after update_selection.)
C23_RenderAbortsAtFailedStep ==
    [][ /\ (renderResult' \in RenderErrors /\ renderResult' # renderResult)
            => /\ pc \in RenderPcs
               /\ renderResult' = ErrorAt(pc)
               /\ pc' = "panicked"
               /\ current_frame' = current_frame
               /\ current_frame = framesOk % MAX_FRAMES_IN_FLIGHT
               /\ UNCHANGED <<in_flight_fences, image_available,
                              render_finished, gpuPending, presentQ,
                              acquired, uniform_buffers, framesOk>>
               /\ IF pc = "r_update"
                  THEN /\ Len(steps') = Len(steps) + 1
                       /\ steps'[Len(steps')].call = "update_selection"
                  ELSE steps' = steps
        /\ (renderResult \in RenderErrors)
            => /\ pc' = "panicked"
               /\ UNCHANGED <<steps, current_frame, framesOk, clock,
                              uniform_buffers, acquired>> ]_vars

\* the submit of the second frame has failed after its wait, reset,
\* acquire and update
C23_Witness ==
    /\ pc = "panicked"
    /\ renderResult = "Failed to submit queue"
    /\ framesOk = 1
    /\ current_frame = 1
    /\ Len(steps) = 5
    /\ steps[5].call = "update_uniform_buffer"

(***************************************************************************)
(* Properties of the resources built by Renderer::new.                     *)
(***************************************************************************)
\* Renderer::new has returned the Renderer
NewDone == newStep > Len(NewSteps)

\* C24: the command buffers are recorded exactly once, by Renderer::new and
\* before the first frame: once new has returned every command buffer holds
\* what record_command_buffers put into it, and no call of a render begins,
\* resets or records a command buffer.
C24_RecordedOnce ==
    /\ recordings <= 1
    /\ (steps # <<>> \/ framesOk > 0) => NewDone
    /\ NewDone =>
          /\ recordings = 1
          /\ DOMAIN command_buffers = 0..(swapchain_image_count - 1)
          /\ \A i \in DOMAIN command_buffers :
                command_buffers[i] =
                    [framebuffer |-> RecordedFramebuffer(i),
                     descriptor_set |-> RecordedDescriptorSet(i)]
    /\ \A k \in DOMAIN steps :
          steps[k].call \in {"wait_for_fences", "reset_fences",
                             "acquire_next_image", "update_selection",
                             "update_uniform_buffer", "queue_submit",
                             "queue_present", "advance"}

\* two frames have been rendered with three command buffers recorded once
C24_Witness ==
    /\ framesOk = 2
    /\ recordings = 1
    /\ swapchain_image_count = 3
    /\ DOMAIN command_buffers = 0..2

\* render is between its Update step and its return
Updated == pc \in {"r_submit", "r_present"}

\* C25 as stated: after the Update step of a frame all uniform buffers hold
\* the same contents, that frame's record.
C25_AllInstancesIdentical ==
    Updated =>
        \A i, j \in DOMAIN uniform_buffers :
            uniform_buffers[i] = uniform_buffers[j]

\* C25: after the Update step of a frame the uniform buffer of the acquired
\* image holds that frame's record, and it is the only one rewritten: every
\* other uniform buffer still holds the record of an earlier frame, or has
\* never been written.
C25_AcquiredInstanceRewritten ==
    Updated =>
        /\ uniform_buffers[image_index].time = clock
        /\ uniform_buffers[image_index].item_selected =
              UnwrapOr(selected_segment, -1)
        /\ \A i \in DOMAIN uniform_buffers :
              i # image_index => uniform_buffers[i].time < clock

\* the second frame has written the buffer of its image, and the buffer
\* the first frame wrote still holds the first frame's record
C25_Witness ==
    /\ pc = "r_submit"
    /\ framesOk = 1
    /\ uniform_buffers[image_index].time = 2
    /\ \E i \in DOMAIN uniform_buffers :
          i # image_index /\ uniform_buffers[i].time = 1

\* the positions of the steps of Renderer::new that have run: step k of
\* them is NewSteps[k]
Executed == 1..(newStep - 1)

DeviceBootstrapSteps ==
    {"pick_physical_device", "find_queue_family_index",
     "create_logical_device_and_queue"}
SurfaceManagerSteps ==
    {"create_swapchain", "get_swapchain_images", "create_image_views",
     "create_render_pass", "create_framebuffers"}
ResourceBuilderSteps ==
    {"create_descriptor_set_layout", "create_uniform_buffers",
     "create_descriptor_pool", "create_descriptor_sets",
     "create_graphics_pipeline", "create_command_pool",
     "allocate_command_buffers", "record_command_buffers"}

\* the phase of a step when the surface binding counts as a step of the
\* phase named by surfacePhase: 0 is the loading of the API and the
\* instance, 1 Device Bootstrap, 2 Presentation Surface Manager, 3 Pipeline
\* & Resource Builder, 4 the gates of the Frame Scheduler
Phase(step, surfacePhase) ==
    CASE step = "create_win32_surface" -> surfacePhase
      [] step \in DeviceBootstrapSteps -> 1
      [] step \in SurfaceManagerSteps -> 2
      [] step \in ResourceBuilderSteps -> 3
      [] step = "create_sync_objects" -> 4
      [] OTHER -> 0

\* the lengths n such that the first n steps of Renderer::new are all
\* different and no step of a later phase comes before a step of an earlier
\* one
OrderedPrefixes(surfacePhase) ==
    {n \in 0..Len(NewSteps) :
        \A k \in 1..n :
            /\ NewSteps[k] \notin {NewSteps[j] : j \in 1..(k - 1)}
            /\ (k > 1 => Phase(NewSteps[k - 1], surfacePhase)
                            <= Phase(NewSteps[k], surfacePhase))}
PrefixesAsStated == OrderedPrefixes(2)
PrefixesSurfaceFirst == OrderedPrefixes(0)

\* the steps of the three phases
PhaseSteps ==
    DeviceBootstrapSteps \cup SurfaceManagerSteps \cup ResourceBuilderSteps
        \cup {"create_win32_surface"}
AllPhaseStepsInNew ==
    PhaseSteps \subseteq {NewSteps[k] : k \in DOMAIN NewSteps}

\* every step that has run has run once and in the order of the phases,
\* and frames are rendered only once all steps of all phases have run
PhasesInOrder(prefixes) ==
    /\ newStep - 1 \in prefixes
    /\ (steps # <<>> \/ framesOk > 0) =>
          (Executed = DOMAIN NewSteps /\ AllPhaseStepsInNew)

\* C26 as stated: with the surface binding a step of the Presentation
\* Surface Manager, the three phases run once each in the order Device
\* Bootstrap, Presentation Surface Manager, Pipeline & Resource Builder.
C26_PhasesInOrder == PhasesInOrder(PrefixesAsStated)

\* C26: the surface binding runs first, before the GPU is selected (the
\* selection asks each device for present support on that surface); then
\* Device Bootstrap, the rest of the Presentation Surface Manager and the
\* Pipeline & Resource Builder run once each in this order, no step of a
\* later phase before a step of an earlier one, all before the first frame.
C26_SurfaceThenPhasesInOrder == PhasesInOrder(PrefixesSurfaceFirst)

\* all steps of Renderer::new have run and a frame has been rendered
C26_Witness ==
    /\ Executed = 1..20
    /\ NewSteps[3] = "create_win32_surface"
    /\ NewSteps[4] = "pick_physical_device"
    /\ framesOk = 1

\* the word copied to byte offset b
CopiedAt(b) == boot.output.data[b \div 4 + 1]

\* C27: the uniform record copied to the GPU has radius at byte offset 0,
\* inner_radius at 4, segments at 8, time at 12, mouse_pos at 16,
\* segment_gap at 24 and item_selected at 28, only padding after them, and
\* the size that is mapped, copied and bound in the descriptor is one
\* multiple of 16 bytes.
C27_UniformLayout ==
    boot.call = "uniform" =>
        LET record == boot.input
            out == boot.output
        IN /\ CopiedAt(0) = <<"radius", 0, record.radius>>
           /\ CopiedAt(4) = <<"inner_radius", 0, record.inner_radius>>
           /\ CopiedAt(8) = <<"segments", 0, record.segments>>
           /\ CopiedAt(12) = <<"time", 0, record.time>>
           /\ CopiedAt(16) = <<"mouse_pos", 0, record.mouse_pos[1]>>
           /\ CopiedAt(20) = <<"mouse_pos", 1, record.mouse_pos[2]>>
           /\ CopiedAt(24) = <<"segment_gap", 0, record.segment_gap>>
           /\ CopiedAt(28) = <<"item_selected", 0, record.item_selected>>
           /\ \A w \in DOMAIN out.data :
                 4 * (w - 1) >= 32 =>
                     /\ out.data[w][1] \in {"_padding0", "_padding1", "tail"}
                     /\ out.data[w][3] = 0
           /\ out.mapped % 16 = 0
           /\ out.mapped = 4 * Len(out.data)
           /\ out.buffer_size = out.mapped
           /\ out.range = out.mapped

\* a record with a selected segment has been copied into 64 bytes
C27_Witness ==
    /\ boot.call = "uniform"
    /\ boot.input.item_selected = 3
    /\ boot.input.time = 2
    /\ boot.output.mapped = 64
    /\ Len(boot.output.data) = 16

(***************************************************************************)
(* Properties of the swap chain request.                                   *)
(***************************************************************************)
\* C28: the swap chain is requested with min_image_count + 1 images,
\* reduced to max_image_count when max_image_count > 0 and
\* min_image_count + 1 exceeds it; max_image_count = 0 is no upper bound;
\* the request is never below min_image_count.
C28_ImageCount ==
    boot.call = "swapchain" =>
        LET min == boot.input.surface_capabilities.min_image_count
            max == boot.input.surface_capabilities.max_image_count
            requested == boot.output.min_image_count
        IN /\ (max = 0 => requested = min + 1)
           /\ (max > 0 /\ min + 1 > max => requested = max)
           /\ (max > 0 /\ min + 1 <= max => requested = min + 1)
           /\ requested >= min
           /\ (max > 0 => requested <= max)

\* a surface whose maximum equals its minimum gets exactly that many
C28_Witness ==
    /\ boot.call = "swapchain"
    /\ boot.input.surface_capabilities.min_image_count = 2
    /\ boot.input.surface_capabilities.max_image_count = 2
    /\ boot.output.min_image_count = 2

\* C29: the swap chain uses pre-multiplied alpha if supported, else
\* post-multiplied if supported, else inherited if supported, else opaque;
\* opaque only when none of the other three is supported.
C29_CompositeAlpha ==
    boot.call = "swapchain" =>
        LET supported == boot.input.surface_capabilities
                             .supported_composite_alpha
            chosen == boot.output.composite_alpha
        IN /\ ("PRE_MULTIPLIED" \in supported => chosen = "PRE_MULTIPLIED")
           /\ ("PRE_MULTIPLIED" \notin supported
                 /\ "POST_MULTIPLIED" \in supported
                    => chosen = "POST_MULTIPLIED")
           /\ ({"PRE_MULTIPLIED", "POST_MULTIPLIED"} \cap supported = {}
                 /\ "INHERIT" \in supported
                    => chosen = "INHERIT")
           /\ (chosen = "OPAQUE" <=>
                 {"PRE_MULTIPLIED", "POST_MULTIPLIED", "INHERIT"}
                     \cap supported = {})

\* a surface supporting opaque, inherited and post-multiplied alpha gets
\* post-multiplied
C29_Witness ==
    /\ boot.call = "swapchain"
    /\ boot.input.surface_capabilities.supported_composite_alpha =
          {"OPAQUE", "INHERIT", "POST_MULTIPLIED"}
    /\ boot.output.composite_alpha = "POST_MULTIPLIED"

\* the format and colour space the swap chain is created with
ChosenFormat ==
    [format |-> boot.output.image_format,
     color_space |-> boot.output.image_color_space]

\* the preferred pair is among the reported formats
PreferredReported(surface_formats) ==
    \E k \in DOMAIN surface_formats : surface_formats[k] = PreferredFormat

\* C30 as stated: the preferred pair if it is among the reported formats,
\* otherwise the first reported format.
C30_PreferredElseFirst ==
    boot.call = "swapchain" =>
        LET surface_formats == boot.input.surface_formats IN
        IF PreferredReported(surface_formats)
        THEN ChosenFormat = PreferredFormat
        ELSE ChosenFormat = surface_formats[1]

\* C30: the preferred pair if it is among the reported formats, or if the
\* surface reports the single format UNDEFINED (it has no preference);
\* otherwise the first reported format.
C30_PreferredElseUndefinedElseFirst ==
    boot.call = "swapchain" =>
        LET surface_formats == boot.input.surface_formats
            lone == /\ Len(surface_formats) = 1
                    /\ surface_formats[1].format = "UNDEFINED"
        IN IF PreferredReported(surface_formats) \/ lone
           THEN ChosenFormat = PreferredFormat
           ELSE ChosenFormat = surface_formats[1]

\* the preferred pair is reported second and chosen
C30_Witness ==
    /\ boot.call = "swapchain"
    /\ Len(boot.input.surface_formats) = 2
    /\ boot.input.surface_formats[1].format = "R8G8B8A8_UNORM"
    /\ boot.input.surface_formats[2] = PreferredFormat
    /\ ChosenFormat = PreferredFormat

(***************************************************************************)
(* Properties of shader loading.                                           *)
(***************************************************************************)
\* C31: loading a shader fails, with an error that ends Renderer::new in
\* create_graphics_pipeline, if the file cannot be opened or read or its
\* length is not a multiple of 4; otherwise it yields length/4 words in
\* file order, word j being the little-endian value of bytes 4j..4j+3.
C31_ShaderWords ==
    boot.call = "shader" =>
        LET file == boot.input
            out == boot.output
            bytes == file.bytes
        IN /\ (out.error # "" <=>
                 (file.status # "ok" \/ Len(bytes) % 4 # 0))
           /\ (out.error # "" =>
                 /\ out.error \in NewErrors("create_graphics_pipeline")
                 /\ out.words = <<>>)
           /\ (out.error = "" =>
                 /\ 4 * Len(out.words) = Len(bytes)
                 /\ \A j \in 0..(Len(out.words) - 1) :
                       out.words[j + 1] =
                           bytes[4 * j + 1] + 256 * bytes[4 * j + 2]
                             + 65536 * bytes[4 * j + 3]
                             + 16777216 * bytes[4 * j + 4])

\* a file of eight bytes has been read as two words, the first one 1 and
\* the second one 127 * 2^24
C31_Witness ==
    /\ boot.call = "shader"
    /\ boot.input.bytes = <<1, 0, 0, 0, 0, 0, 0, 127>>
    /\ boot.output.words = <<1, 2130706432>>

\* a file of five bytes has been refused
C31_WitnessMisaligned ==
    /\ boot.call = "shader"
    /\ Len(boot.input.bytes) = 5
    /\ boot.output.error = "Shader bytecode is not properly aligned."

(***************************************************************************)
(* Properties of the uniform record of a frame.                            *)
(***************************************************************************)
\* every value selected_segment can hold before a hit test
Selections == {None} \cup {Some(k) : k \in 0..SEGMENTS}

\* C32: the uniform record written in a frame carries radius 0.25,
\* inner_radius 0.08, segments 6 and segment_gap 0.1, the inner radius and
\* the segment count being those of the hit test, and its item_selected is
\* the segment the hit test computes from the record's own mouse_pos, or -1
\* when it finds none, whatever was selected before the frame.
C32_RecordOfThisFrame ==
    Len(steps) >= 5 =>
        LET record == uniform_buffers[steps[5].args[1]] IN
        /\ record.radius = 25
        /\ record.inner_radius = 8
        /\ record.inner_radius = INNER_RADIUS
        /\ record.segments = 6
        /\ record.segments = SEGMENTS
        /\ record.segment_gap = 10
        /\ record.time = clock
        /\ \A previous \in Selections :
              record.item_selected =
                  UnwrapOr(update_selection(record.mouse_pos[1],
                                            record.mouse_pos[2], previous),
                           -1)

\* a frame whose cursor is at the centre follows one that selected segment
\* 4: its record carries -1
C32_Witness ==
    /\ pc = "r_submit"
    /\ framesOk >= 1
    /\ \E i \in DOMAIN uniform_buffers :
          i # image_index /\ uniform_buffers[i].item_selected = 4
    /\ uniform_buffers[image_index].mouse_pos = <<0, 0>>
    /\ uniform_buffers[image_index].item_selected = -1
    /\ uniform_buffers[image_index].radius = 25

(***************************************************************************)
(* Properties of the gates (fences and semaphores).                        *)
(***************************************************************************)
\* C33: the fences are created signaled, so the first wait on each slot
\* finds its fence signaled although nothing was submitted on the slot;
\* and with a GPU that completes what is submitted and an acquire that
\* returns, every render call gets past its wait and returns.
C33_WaitReturns ==
    /\ [](pc = "r_wait" /\ framesOk < MAX_FRAMES_IN_FLIGHT
            => in_flight_fences[current_frame])
    /\ (pc \in RenderPcs) ~> (pc \in {"sleep", "panicked"})

\* the third render call waits on slot 0 while the submission of the first
\* call, which will signal the fence, is still outstanding
C33_Witness ==
    /\ pc = "r_wait"
    /\ framesOk = 2
    /\ ~in_flight_fences[0]
    /\ \E p \in gpuPending : p.fence = 0

\* C34: between render calls, also after a render call that returned an
\* error, a fence that is unsignaled has a queued submission that will
\* signal it, so a later wait on its slot cannot block forever.
C34_UnsignaledFenceHasSubmission ==
    (NewDone /\ pc \notin RenderPcs) =>
        \A s \in Slots :
            ~in_flight_fences[s] => \E p \in gpuPending : p.fence = s

\* acquire_next_image returns: it will signal image_available of the slot
AcquireReturns == pc = "r_acquire" /\ pc' = "r_update"

\* the submissions that complete in a step: each signals render_finished
\* of its slot
Completed == gpuPending \ gpuPending'

\* C35: no semaphore is signaled while an earlier signal on it is still
\* unconsumed: image_available[s] is unsignaled when acquire is given it,
\* and render_finished[s] is unsignaled when a submission signals it, for
\* every image count and every order of GPU and presentation progress.
C35_NoSignalOnSignaled ==
    [][ /\ (AcquireReturns => ~image_available[current_frame])
        /\ \A p \in Completed : ~render_finished[p.signal] ]_vars

(***************************************************************************)
(* Properties of the overlay: showing, hiding and the action on release.   *)
(***************************************************************************)
\* the main loop is between two render calls
BetweenFrames == pc \in {"input", "body", "sleep"}

\* the loop iteration in progress takes the overlay from shown to hidden
BecomesHidden == pc = "body" /\ prev_visibility /\ ~visible'

\* C36: when the overlay goes from visible to hidden the main loop executes
\* the action of the selected segment once, or no action if none is
\* selected, and resets the selection; no action is executed at any other
\* moment; so a hidden overlay has no selection, a visibility period starts
\* without one, and a selection, hence an executed action, is the result of
\* the last hit test of the visibility period in progress.
C36_ActionOnRelease ==
    /\ [][ /\ BecomesHidden =>
                /\ printed' =
                      IF selected_segment = None THEN <<>>
                      ELSE <<Message("Executing action for segment",
                                     selected_segment[1])>>
                /\ selected_segment' = None
           /\ (pc = "body" /\ ~BecomesHidden) =>
                /\ printed' = <<>>
                /\ selected_segment' = selected_segment
           /\ (pc = "body" /\ ~prev_visibility /\ visible') =>
                selected_segment' = None ]_vars
    /\ [](BetweenFrames /\ selected_segment # None =>
            /\ prev_visibility
            /\ \E i \in DOMAIN uniform_buffers :
                  /\ uniform_buffers[i].time = clock
                  /\ uniform_buffers[i].item_selected = selected_segment[1])
    /\ [](pc \in {"input", "sleep"} /\ ~visible => selected_segment = None)

\* Alt was released with segment 4 selected: its action has been executed
\* and the selection is gone
C36_Witness ==
    /\ pc = "sleep"
    /\ ~visible
    /\ framesOk >= 1
    /\ printed = <<Message("Executing action for segment", 4)>>
    /\ selected_segment = None

\* the overlay is shown only by process_input, which shows it on the hotkey
\* message, and hidden only by the iteration that polls Alt released after
\* polling it held
ShownByHotkeyHiddenByRelease ==
    /\ (~visible /\ visible') => pc = "input"
    /\ (visible /\ ~visible') =>
          (pc = "body" /\ alt_pressed_prev /\ ~alt_pressed_prev')

\* C37: the overlay becomes visible only when the hotkey message is
\* processed and hidden only on an Alt release; and an overlay that is
\* visible while Alt is not held is hidden within a bounded number of loop
\* iterations: an iteration that polls Alt not held, as the iteration
\* before it did, does not end with the overlay visible.
C37_HiddenOnceAltIsUp ==
    [][ /\ ShownByHotkeyHiddenByRelease
        /\ (pc = "body" /\ ~alt_pressed_prev /\ ~alt_pressed_prev')
              => ~visible' ]_vars

\* the objects that obj was created from or refers to: the handles passed to
\* the call of Renderer::new that creates obj, the memory a uniform buffer
\* is bound to, the buffer a descriptor set is written with, and what the
\* recording of a command buffer names
References(obj) ==
    LET kind == obj[1]
        i == obj[2]
        one(k) == <<k, 0>>
    IN  CASE kind = "instance" -> {}
          [] kind = "surface" -> {one("instance")}
          [] kind = "device" -> {one("instance")}
          [] kind = "swapchain" -> {one("device"), one("surface")}
          [] kind = "image_view" -> {one("device"), one("swapchain")}
          [] kind = "render_pass" -> {one("device")}
          [] kind = "framebuffer" ->
                {one("device"), one("render_pass"), <<"image_view", i>>}
          [] kind = "descriptor_set_layout" -> {one("device")}
          [] kind = "uniform_buffer_memory" -> {one("device")}
          [] kind = "uniform_buffer" ->
                {one("device"), <<"uniform_buffer_memory", i>>}
          [] kind = "descriptor_pool" -> {one("device")}
          [] kind = "descriptor_set" ->
                {one("descriptor_pool"), one("descriptor_set_layout"),
                 <<"uniform_buffer", BoundBuffer(i)>>}
          [] kind = "pipeline_layout" ->
                {one("device"), one("descriptor_set_layout")}
          [] kind = "pipeline" ->
                {one("device"), one("pipeline_layout"), one("render_pass")}
          [] kind = "command_pool" -> {one("device")}
          [] kind = "command_buffer" ->
                {one("command_pool"), one("pipeline"),
                 one("pipeline_layout"), one("render_pass"),
                 <<"framebuffer", RecordedFramebuffer(i)>>,
                 <<"descriptor_set", RecordedDescriptorSet(i)>>}
          [] OTHER -> {one("device")}

\* the destroy call that ends the life of obj: command buffers and
\* descriptor sets are freed by the destruction of their pool
FreedWith(obj) ==
    CASE obj[1] = "command_buffer" -> <<"command_pool", 0>>
      [] obj[1] = "descriptor_set" -> <<"descriptor_pool", 0>>
      [] OTHER -> obj

DestroyedAt(obj) == Pos(destroyLog, FreedWith(obj))

\* obj is gone before used is destroyed, or goes with it
GoesBefore(obj, used) ==
    \/ FreedWith(obj) = used
    \/ DestroyedAt(obj) < DestroyedAt(used)

Created == {createLog[k] : k \in 1..Len(createLog)}

AllDestroyed == \A obj \in Created : Holds(destroyLog, FreedWith(obj))

\* a descriptor set and the uniform buffer it was written with
SetAndItsBuffer(obj, used) ==
    obj[1] = "descriptor_set" /\ used[1] = "uniform_buffer"

====
